---- MODULE Spec2Model ----
(***************************************************************************)
(* pydantic-firestore: the path / reference algebra, the flattening of a   *)
(* nested record for partial updates, and the write dispatcher.            *)
(*                                                                         *)
(* A Python str is a sequence of one-character strings, so that split and  *)
(* join are computed and not assumed.  Every Python value carries its type *)
(* in a "type" field, which is what isinstance reads.                      *)
(***************************************************************************)
EXTENDS Integers, Sequences, FiniteSets, TLC

VARIABLES
    path,       \* paths: the FirestorePath object under test (None before one is built)
    pvalue,     \* paths: the value the constructor was given
    pcall,      \* paths: the last operation on the path
    presult,    \* paths: what that operation returned
    ref,        \* references: the reference object held (None when there is none)
    rcall,      \* references: the last operation, with its arguments
    rresult,    \* references: what that operation returned or raised
    fobj,       \* flatten: the nested record (a dict)
    fexclude,   \* flatten: the exclude argument (None or a set of str)
    fresult,    \* flatten: what to_flatten returned (None before the call)
    fother,     \* flatten: what it returned for the same record iterated in reverse order
    queue,      \* writes: per writer (transaction, batch, bulk writer), the operations queued on it
    issued,     \* writes: per writer, the write calls made against it, as the callers issued them
    wcall,      \* writes: the last write call, with its arguments
    handed,     \* writes: what that call handed to the handler's write
    refcalls,   \* writes: the calls received by the native document reference made for that call
    wresult,    \* writes: what that call returned or raised
    ncalls,     \* writes: the number of write calls made so far
    svalue,     \* sentinels: the value of the field being serialized
    sresult,    \* sentinels: what its serializer returned or raised
    store,      \* backend: per document path, the data stored (None: no such document)
    written,    \* backend: per document path, the record last written there by the caller
    dcall,      \* backend: the last call (a set or a read), with its arguments
    dresult,    \* backend: what that call returned or raised
    types,      \* record types: per class name, the class as it is now (None: not defined)
    declared,   \* record types: per class name, the class as its own definition left it
    cache,      \* classifier: the entries of source_to_handler's cache, least recently used first
    runs,       \* classifier: per source, how many times the classifier body ran for it
    given,      \* classifier: per source, the handler instance it got first (0: none yet)
    instances,  \* classifier: how many handler instances were made
    ccall       \* classifier: the last call, its source and the handler instance it got

pathVars == <<path, pvalue, pcall, presult>>
refVars == <<ref, rcall, rresult>>
flatVars == <<fobj, fexclude, fresult, fother>>
writeVars == <<queue, issued, wcall, handed, refcalls, wresult, ncalls>>
sentVars == <<svalue, sresult>>
storeVars == <<store, written, dcall, dresult>>
typeVars == <<types, declared>>
cacheVars == <<cache, runs, given, instances, ccall>>
vars == <<pathVars, refVars, flatVars, writeVars, sentVars, storeVars, typeVars, cacheVars>>
exceptPath == <<refVars, flatVars, writeVars, sentVars, storeVars, typeVars, cacheVars>>
exceptRef == <<pathVars, flatVars, writeVars, sentVars, storeVars, typeVars, cacheVars>>
exceptFlat == <<pathVars, refVars, writeVars, sentVars, storeVars, typeVars, cacheVars>>
exceptWrite == <<pathVars, refVars, flatVars, sentVars, storeVars, typeVars, cacheVars>>
exceptSent == <<pathVars, refVars, flatVars, writeVars, storeVars, typeVars, cacheVars>>
exceptStore == <<pathVars, refVars, flatVars, writeVars, sentVars, typeVars, cacheVars>>
exceptType == <<pathVars, refVars, flatVars, writeVars, sentVars, storeVars, cacheVars>>
exceptCache == <<pathVars, refVars, flatVars, writeVars, sentVars, storeVars, typeVars>>

(***************************************************************************)
(* Bounds of the model.                                                    *)
(***************************************************************************)
MaxStrLen == 4      \* longest str handed to FirestorePath
MaxPathLen == 4     \* longest tuple handed to FirestorePath
MaxNodes == 4       \* most keys, at all levels together, of a record handed to to_flatten
MaxCalls == 1       \* most write calls in a row, arguments of every kind
MaxQueue == 2       \* most write calls in a row, plain arguments (queues build up)
MaxSources == 130   \* most Sources in use
MaxIds == 3         \* most ids handed to firestore_collection
MaxDepth == 2       \* deepest nesting of 2-tuples in a value handed to the sentinel serializer

(***************************************************************************)
(* Python values.                                                          *)
(***************************************************************************)
None == [type |-> "NoneType"]
Str(s) == [type |-> "str", v |-> s]
Tuple(t) == [type |-> "tuple", v |-> t]
Set(S) == [type |-> "set", v |-> S]
Returned(v) == [raised |-> FALSE, value |-> v]
Raised(e) == [raised |-> TRUE, error |-> e]

Chars == {"a", "/"}
Strings == UNION {[1..k -> Chars] : k \in 0..MaxStrLen}
\* path segments a caller passes in a tuple: the empty str is a str too
Segments == {<<>>, <<"a">>, <<"b">>}
Tuples == UNION {[1..k -> Segments] : k \in 0..MaxPathLen}

\* s.split(sep): always at least one part; "" gives [""], "a/" gives ["a", ""]
RECURSIVE split(_, _)
split(s, sep) ==
    IF \A i \in 1..Len(s) : s[i] # sep
    THEN <<s>>
    ELSE LET i == CHOOSE k \in 1..Len(s) :
                      s[k] = sep /\ \A j \in 1..(k - 1) : s[j] # sep
         IN <<SubSeq(s, 1, i - 1)>> \o split(SubSeq(s, i + 1, Len(s)), sep)

\* sep.join(parts)
RECURSIVE join(_, _)
join(parts, sep) ==
    IF Len(parts) = 0 THEN <<>>
    ELSE IF Len(parts) = 1 THEN parts[1]
    ELSE parts[1] \o <<sep>> \o join(Tail(parts), sep)

(***************************************************************************)
(* path.py: FirestorePath                                                  *)
(***************************************************************************)
\* the mode="before" validator: a str is split on "/", anything else passes
validate_path(value) ==
    IF value.type = "str" THEN Tuple(split(value.v, "/")) ELSE value

\* FirestorePath(value): root: tuple[str, ...] takes any tuple of str,
\* the empty tuple and empty segments included; an instance is taken as it is
FirestorePath(value) ==
    IF value.type = "FirestorePath" THEN value
    ELSE [type |-> "FirestorePath", root |-> validate_path(value).v]

is_document(p) == Len(p.root) % 2 = 0

\* mutant: the parity test of is_document copied into is_collection
is_collection_copied(p) == Len(p.root) % 2 = 0

is_collection(p) == Len(p.root) % 2 = 1

\* root[-1]: IndexError on the empty tuple
FirestorePath_id(p) ==
    IF Len(p.root) = 0 THEN Raised("IndexError")
    ELSE Returned(p.root[Len(p.root)])

\* mutant: the root test off by one, the parent of a root is the empty path
FirestorePath_parent_off_by_one(p) ==
    IF Len(p.root) > 0
    THEN [type |-> "FirestorePath", root |-> SubSeq(p.root, 1, Len(p.root) - 1)]
    ELSE None

FirestorePath_parent(p) ==
    IF Len(p.root) > 1
    THEN FirestorePath(Tuple(SubSeq(p.root, 1, Len(p.root) - 1)))
    ELSE None

\* self / other, other a str
FirestorePath_truediv(p, other) ==
    FirestorePath(Tuple(Append(p.root, other)))

(***************************************************************************)
(* reference.py: ReferenceModel, FirestoreDocument, FirestoreCollection    *)
(***************************************************************************)
\* the mode="after" validators: assert self.root.is_document / is_collection
\* mutant: the assert does not run
FirestoreDocument_check_path_skipped(self) == TRUE

FirestoreDocument_check_path(self) == is_document(self.root)

FirestoreCollection_check_path(self) == is_collection(self.root)

\* FirestoreDocument(root=value): the root field is validated as a
\* FirestorePath, then check_path; a failed assert is a ValidationError
FirestoreDocument(value) ==
    LET self == [type |-> "FirestoreDocument", root |-> FirestorePath(value)]
    IN IF FirestoreDocument_check_path(self) THEN Returned(self)
       ELSE Raised("ValidationError")

FirestoreCollection(value) ==
    LET self == [type |-> "FirestoreCollection", root |-> FirestorePath(value)]
    IN IF FirestoreCollection_check_path(self) THEN Returned(self)
       ELSE Raised("ValidationError")

FirestoreDocument_collection(self, id) ==
    FirestoreCollection(FirestorePath_truediv(self.root, id))

FirestoreCollection_document(self, id) ==
    FirestoreDocument(FirestorePath_truediv(self.root, id))

FirestoreDocument_parent(self) ==
    LET parent == FirestorePath_parent(self.root)
    IN IF parent # None THEN FirestoreCollection(parent) ELSE Returned(None)

FirestoreCollection_parent(self) ==
    LET parent == FirestorePath_parent(self.root)
    IN IF parent # None THEN FirestoreDocument(parent) ELSE Returned(None)

\* The backend's native references, as the tests use them: DocumentReference(*path)
\* holds the path in _path and takes an even number of elements, a
\* CollectionReference an odd number; neither takes none.
DocumentReference(args) ==
    IF Len(args) = 0 \/ Len(args) % 2 = 1 THEN Raised("ValueError")
    ELSE Returned([type |-> "DocumentReference", _path |-> args])

CollectionReference(args) ==
    IF Len(args) % 2 = 0 THEN Raised("ValueError")
    ELSE Returned([type |-> "CollectionReference", _path |-> args])

\* cls.model_validate(value._path)
FirestoreDocument_from_firestore(value) == FirestoreDocument(Tuple(value._path))

FirestoreCollection_from_firestore(value) == FirestoreCollection(Tuple(value._path))

\* client.document(*self.root): iterating the reference iterates its path's root
\* mutant: client.collection in the place of client.document
FirestoreDocument_to_firestore_collection(self) == CollectionReference(self.root.root)

FirestoreDocument_to_firestore(self) == DocumentReference(self.root.root)

FirestoreCollection_to_firestore(self) == CollectionReference(self.root.root)

(***************************************************************************)
(* utils.py: to_flatten.  A dict is the sequence of its (key, value) items *)
(* in iteration order, keys distinct; two dicts are equal as mappings.     *)
(* Keys are plain identifiers (no ".", no character a field path quotes).  *)
(***************************************************************************)
IntValue(n) == [type |-> "int", v |-> n]
Dict(items) == [type |-> "dict", items |-> items]

\* isinstance(value, MutableMapping)
isMapping(value) == value.type = "dict"

Keys(d) == {d.items[i][1] : i \in 1..Len(d.items)}
Get(d, key) == d.items[CHOOSE i \in 1..Len(d.items) : d.items[i][1] = key][2]

\* d[key] = value: a key already there keeps its place
SetItem(d, key, value) ==
    IF key \in Keys(d)
    THEN Dict([i \in 1..Len(d.items) |->
                 IF d.items[i][1] = key THEN <<key, value>> ELSE d.items[i]])
    ELSE Dict(Append(d.items, <<key, value>>))

\* dict(items): the items in order, a later item of the same key wins
RECURSIVE dict(_)
dict(items) ==
    IF Len(items) = 0 THEN Dict(<<>>)
    ELSE LET n == Len(items)
         IN SetItem(dict(SubSeq(items, 1, n - 1)), items[n][1], items[n][2])

\* FieldPath.from_string(s): the parts of a dotted str; FieldPath(): no part
FieldPath_from_string(s) == split(s, ".")

\* parent + key
FieldPath_add(parent, key) == parent \o FieldPath_from_string(key)

\* field.to_api_repr(): the parts joined by "."
FieldPath_to_api_repr(field) == join(field, ".")

RECURSIVE _to_flatten(_, _, _)
RECURSIVE _to_flatten_items(_, _, _)

\* mutant: the exclusion test dropped, every nested mapping is expanded
_to_flatten_items_no_exclude(items, exclude, parent) ==
    IF Len(items) = 0 THEN <<>>
    ELSE LET key == items[1][1]
             value == items[1][2]
             field == FieldPath_add(parent, key)
         IN (IF isMapping(value)
             THEN _to_flatten(value, exclude, field).items
             ELSE <<(<<field, value>>)>>)
            \o _to_flatten_items(Tail(items), exclude, parent)

\* mutant: an empty nested mapping is emitted as a leaf
_to_flatten_items_keep_empty(items, exclude, parent) ==
    IF Len(items) = 0 THEN <<>>
    ELSE LET key == items[1][1]
             value == items[1][2]
             field == FieldPath_add(parent, key)
         IN (IF field \notin exclude /\ isMapping(value) /\ Len(value.items) > 0
             THEN _to_flatten(value, exclude, field).items
             ELSE <<(<<field, value>>)>>)
            \o _to_flatten_items(Tail(items), exclude, parent)

\* the loop of _to_flatten over obj.items(): the list `items` it builds
_to_flatten_items(items, exclude, parent) ==
    IF Len(items) = 0 THEN <<>>
    ELSE LET key == items[1][1]
             value == items[1][2]
             field == FieldPath_add(parent, key)
         IN (IF field \notin exclude /\ isMapping(value)
             THEN _to_flatten(value, exclude, field).items
             ELSE <<(<<field, value>>)>>)
            \o _to_flatten_items(Tail(items), exclude, parent)

_to_flatten(obj, exclude, parent) ==
    dict(_to_flatten_items(obj.items, exclude, parent))

\* to_flatten(obj, exclude=exclude): exclude None or an iterable of dotted str
to_flatten(obj, exclude) ==
    LET paths == IF exclude = None THEN {}
                 ELSE {FieldPath_from_string(x) : x \in exclude.v}
        output == _to_flatten(obj, paths, <<>>)
    IN dict([i \in 1..Len(output.items) |->
                <<FieldPath_to_api_repr(output.items[i][1]), output.items[i][2]>>])

(***************************************************************************)
(* model.py: the handlers.  A handler method is the one call it makes on a *)
(* collaborator: on the native document reference ("reference") or on the  *)
(* writer it holds ("writer"); returns says whether the method returns     *)
(* that call's result (a method without return gives None).                *)
(***************************************************************************)
Bool(b) == [type |-> "bool", v |-> b]

\* google.api_core.gapic_v1.method.DEFAULT
default_param == [type |-> "DEFAULT"]

\* **kwargs: the set of the (name, value) pairs given, names distinct
kwnames(kwargs) == {p[1] : p \in kwargs}

\* kwargs.get(name, default)
kwget(kwargs, name, default) ==
    IF name \in kwnames(kwargs)
    THEN (CHOOSE p \in kwargs : p[1] = name)[2]
    ELSE default

\* mutant: the return statement missing, as in the queueing handlers
FirestoreHandler_create_no_return(self, reference, data, kwargs) ==
    [on |-> "reference", returns |-> FALSE,
     call |-> [name |-> "create", data |-> data,
               timeout |-> kwget(kwargs, "timeout", None),
               retry |-> kwget(kwargs, "retry", default_param)]]

FirestoreHandler_create(self, reference, data, kwargs) ==
    [on |-> "reference", returns |-> TRUE,
     call |-> [name |-> "create", data |-> data,
               timeout |-> kwget(kwargs, "timeout", None),
               retry |-> kwget(kwargs, "retry", default_param)]]

FirestoreHandler_set(self, reference, data, kwargs) ==
    [on |-> "reference", returns |-> TRUE,
     call |-> [name |-> "set", data |-> data,
               merge |-> kwget(kwargs, "merge", Bool(FALSE)),
               timeout |-> kwget(kwargs, "timeout", None),
               retry |-> kwget(kwargs, "retry", default_param)]]

FirestoreHandler_update(self, reference, data, kwargs) ==
    [on |-> "reference", returns |-> TRUE,
     call |-> [name |-> "update", data |-> data,
               timeout |-> kwget(kwargs, "timeout", None),
               retry |-> kwget(kwargs, "retry", default_param),
               option |-> kwget(kwargs, "option", None)]]

\* data arrives in kwargs and is not read
FirestoreHandler_delete(self, reference, kwargs) ==
    [on |-> "reference", returns |-> TRUE,
     call |-> [name |-> "delete",
               timeout |-> kwget(kwargs, "timeout", None),
               retry |-> kwget(kwargs, "retry", default_param),
               option |-> kwget(kwargs, "option", None)]]

\* AsyncFirestoreHandler: the same calls with the same arguments, awaited
AsyncFirestoreHandler_create(self, reference, data, kwargs) ==
    FirestoreHandler_create(self, reference, data, kwargs)

AsyncFirestoreHandler_set(self, reference, data, kwargs) ==
    FirestoreHandler_set(self, reference, data, kwargs)

AsyncFirestoreHandler_update(self, reference, data, kwargs) ==
    FirestoreHandler_update(self, reference, data, kwargs)

AsyncFirestoreHandler_delete(self, reference, kwargs) ==
    FirestoreHandler_delete(self, reference, kwargs)

\* mutant: create queued as a set
TransactionHandler_create_as_set(self, reference, data, kwargs) ==
    [on |-> "writer", writer |-> self.writer, returns |-> FALSE,
     call |-> [name |-> "set", reference |-> reference, data |-> data,
               merge |-> kwget(kwargs, "merge", Bool(FALSE))]]

TransactionHandler_create(self, reference, data, kwargs) ==
    [on |-> "writer", writer |-> self.writer, returns |-> FALSE,
     call |-> [name |-> "create", reference |-> reference, data |-> data]]

TransactionHandler_set(self, reference, data, kwargs) ==
    [on |-> "writer", writer |-> self.writer, returns |-> FALSE,
     call |-> [name |-> "set", reference |-> reference, data |-> data,
               merge |-> kwget(kwargs, "merge", Bool(FALSE))]]

TransactionHandler_update(self, reference, data, kwargs) ==
    [on |-> "writer", writer |-> self.writer, returns |-> FALSE,
     call |-> [name |-> "update", reference |-> reference, data |-> data,
               option |-> kwget(kwargs, "option", None)]]

TransactionHandler_delete(self, reference, kwargs) ==
    [on |-> "writer", writer |-> self.writer, returns |-> FALSE,
     call |-> [name |-> "delete", reference |-> reference,
               option |-> kwget(kwargs, "option", None)]]

\* mutant: the attempts of the caller not forwarded
BulkHandler_create_no_attempts(self, reference, data, kwargs) ==
    [on |-> "writer", writer |-> self.writer, returns |-> FALSE,
     call |-> [name |-> "create", reference |-> reference, data |-> data,
               attempts |-> IntValue(0)]]

BulkHandler_create(self, reference, data, kwargs) ==
    [on |-> "writer", writer |-> self.writer, returns |-> FALSE,
     call |-> [name |-> "create", reference |-> reference, data |-> data,
               attempts |-> kwget(kwargs, "attempts", IntValue(0))]]

BulkHandler_set(self, reference, data, kwargs) ==
    [on |-> "writer", writer |-> self.writer, returns |-> FALSE,
     call |-> [name |-> "set", reference |-> reference, data |-> data,
               merge |-> kwget(kwargs, "merge", Bool(FALSE)),
               attempts |-> kwget(kwargs, "attempts", IntValue(0))]]

BulkHandler_update(self, reference, data, kwargs) ==
    [on |-> "writer", writer |-> self.writer, returns |-> FALSE,
     call |-> [name |-> "update", reference |-> reference, data |-> data,
               option |-> kwget(kwargs, "option", None),
               attempts |-> kwget(kwargs, "attempts", IntValue(0))]]

BulkHandler_delete(self, reference, kwargs) ==
    [on |-> "writer", writer |-> self.writer, returns |-> FALSE,
     call |-> [name |-> "delete", reference |-> reference,
               option |-> kwget(kwargs, "option", None),
               attempts |-> kwget(kwargs, "attempts", IntValue(0))]]

\* write: getattr(self, method)(reference, data=data, **kwargs), the method
\* looked up on the handler's class
FirestoreHandler_write(self, method, reference, data, kwargs) ==
    CASE self.type = "FirestoreHandler" ->
            (CASE method = "create" -> FirestoreHandler_create(self, reference, data, kwargs)
               [] method = "set" -> FirestoreHandler_set(self, reference, data, kwargs)
               [] method = "update" -> FirestoreHandler_update(self, reference, data, kwargs)
               [] method = "delete" -> FirestoreHandler_delete(self, reference, kwargs))
      [] self.type = "AsyncFirestoreHandler" ->
            (CASE method = "create" -> AsyncFirestoreHandler_create(self, reference, data, kwargs)
               [] method = "set" -> AsyncFirestoreHandler_set(self, reference, data, kwargs)
               [] method = "update" -> AsyncFirestoreHandler_update(self, reference, data, kwargs)
               [] method = "delete" -> AsyncFirestoreHandler_delete(self, reference, kwargs))
      [] self.type = "TransactionHandler" ->
            (CASE method = "create" -> TransactionHandler_create(self, reference, data, kwargs)
               [] method = "set" -> TransactionHandler_set(self, reference, data, kwargs)
               [] method = "update" -> TransactionHandler_update(self, reference, data, kwargs)
               [] method = "delete" -> TransactionHandler_delete(self, reference, kwargs))
      [] self.type = "BulkHandler" ->
            (CASE method = "create" -> BulkHandler_create(self, reference, data, kwargs)
               [] method = "set" -> BulkHandler_set(self, reference, data, kwargs)
               [] method = "update" -> BulkHandler_update(self, reference, data, kwargs)
               [] method = "delete" -> BulkHandler_delete(self, reference, kwargs))

fallback_handler == [type |-> "FirestoreHandler"]
async_fallback_handler == [type |-> "AsyncFirestoreHandler"]
TransactionHandler(writer) == [type |-> "TransactionHandler", writer |-> writer]
BulkHandler(writer) == [type |-> "BulkHandler", writer |-> writer]

\* source_to_handler(source): (client, handler), by the source's class
source_to_handler(source) ==
    IF source.type \in {"Transaction", "AsyncTransaction", "WriteBatch", "AsyncWriteBatch"}
    THEN Returned([client |-> source._client, handler |-> TransactionHandler(source)])
    ELSE IF source.type = "BulkWriter"
    THEN Returned([client |-> source._client, handler |-> BulkHandler(source)])
    ELSE IF source.type = "Client"
    THEN Returned([client |-> source, handler |-> fallback_handler])
    ELSE IF source.type = "AsyncClient"
    THEN Returned([client |-> source, handler |-> async_fallback_handler])
    ELSE Raised("ValueError")

(***************************************************************************)
(* model.py: FirestoreModel.  A record instance holds its fields (a dict)  *)
(* and the names of the fields that were set; a record class holds its     *)
(* base and its firestore_location.  A write classmethod is modelled by    *)
(* what it hands down and by the collaborator call that results; an error  *)
(* raised on the way is the result.                                        *)
(***************************************************************************)
\* data.__pydantic_serializer__.to_python(data, mode="python", by_alias=True,
\* exclude_unset=...): the fields in declaration order, the unset ones left out
\* on demand (no alias, no other option in use)
to_python(data, exclude_unset) ==
    Dict(SelectSeq(data.fields.items,
                   LAMBDA item : ~exclude_unset.v \/ item[1] \in data.fields_set))

\* zip_longest(a, b): pairs, the shorter side filled with None
zip_longest(a, b) ==
    [i \in 1..(IF Len(a) >= Len(b) THEN Len(a) ELSE Len(b)) |->
        <<IF i <= Len(a) THEN Str(a[i]) ELSE None,
          IF i <= Len(b) THEN Str(b[i]) ELSE None>>]

\* mutant: the ids taken in the order of supply
reversed_kept(args) == args

\* reversed(args)
reversed(args) == [i \in 1..Len(args) |-> args[Len(args) + 1 - i]]

\* chain.from_iterable(pairs)
RECURSIVE chain_from_iterable(_)
chain_from_iterable(pairs) ==
    IF Len(pairs) = 0 THEN <<>>
    ELSE pairs[1] \o chain_from_iterable(Tail(pairs))

\* takewhile(lambda x: x is not None, xs)
RECURSIVE takewhile_not_None(_)
takewhile_not_None(xs) ==
    IF Len(xs) = 0 \/ xs[1] = None THEN <<>>
    ELSE <<xs[1].v>> \o takewhile_not_None(Tail(xs))

\* cls.firestore_collection(*args)
FirestoreModel_firestore_collection(cls, args) ==
    IF ~(Len(cls.firestore_location) > 0) THEN Raised("AssertionError")
    ELSE IF ~(Len(args) = Len(cls.firestore_location) - 1) THEN Raised("AssertionError")
    ELSE FirestoreCollection(Tuple(takewhile_not_None(chain_from_iterable(
             zip_longest(cls.firestore_location, reversed(args))))))

\* cls.firestore_document(id, *args)
FirestoreModel_firestore_document(cls, id, args) ==
    LET collection == FirestoreModel_firestore_collection(cls, args)
    IN IF collection.raised THEN collection
       ELSE FirestoreCollection_document(collection.value, id)

\* cls.document_reference(client, id, *args)
FirestoreModel_document_reference(cls, client, id, args) ==
    LET document == FirestoreModel_firestore_document(cls, id, args)
    IN IF document.raised THEN document
       ELSE FirestoreDocument_to_firestore(document.value)

\* cls.firestore_dump(data, **kwargs)
FirestoreModel_firestore_dump(cls, data, kwargs) ==
    to_python(data, kwget(kwargs, "exclude_unset", Bool(FALSE)))

\* cls.firestore_write(method, source, id, *args, data=data, **kwargs)
FirestoreModel_firestore_write(cls, method, source, id, args, data, kwargs) ==
    LET classified == source_to_handler(source)
        reference == FirestoreModel_document_reference(
                         cls, classified.value.client, id, args)
    IN IF classified.raised THEN classified
       ELSE IF reference.raised THEN reference
       ELSE Returned([handed |-> [handler |-> classified.value.handler,
                                  method |-> method,
                                  reference |-> reference.value,
                                  data |-> data],
                      effect |-> FirestoreHandler_write(
                                     classified.value.handler, method,
                                     reference.value, data, kwargs)])

FirestoreModel_firestore_create(cls, source, data, id, args, kwargs) ==
    FirestoreModel_firestore_write(cls, "create", source, id, args,
        FirestoreModel_firestore_dump(cls, data, kwargs), kwargs)

FirestoreModel_firestore_set(cls, source, data, id, args, kwargs) ==
    FirestoreModel_firestore_write(cls, "set", source, id, args,
        FirestoreModel_firestore_dump(cls, data, kwargs), kwargs)

\* mutant: the serialized record handed down as it is
FirestoreModel_firestore_update_nested(cls, source, data, id, args, ignore_flatten, kwargs) ==
    IF "exclude_unset" \in kwnames(kwargs) THEN Raised("TypeError")
    ELSE FirestoreModel_firestore_write(cls, "update", source, id, args,
             FirestoreModel_firestore_dump(
                 cls, data, kwargs \cup {<<"exclude_unset", Bool(TRUE)>>}),
             kwargs)

\* firestore_dump(data, exclude_unset=True, **kwargs): a second exclude_unset
\* in kwargs is a TypeError, raised before the source is looked at
FirestoreModel_firestore_update(cls, source, data, id, args, ignore_flatten, kwargs) ==
    IF "exclude_unset" \in kwnames(kwargs) THEN Raised("TypeError")
    ELSE FirestoreModel_firestore_write(cls, "update", source, id, args,
             to_flatten(FirestoreModel_firestore_dump(
                            cls, data, kwargs \cup {<<"exclude_unset", Bool(TRUE)>>}),
                        ignore_flatten),
             kwargs)

\* data is None
FirestoreModel_firestore_delete(cls, source, id, args, kwargs) ==
    FirestoreModel_firestore_write(cls, "delete", source, id, args, None, kwargs)

(***************************************************************************)
(* location.py: FirestoreLocation, the same writes without a handler.      *)
(***************************************************************************)
\* hasattr(source, "_client")
has_client(source) == "_client" \in DOMAIN source

Location_source_to_tuple(source) ==
    IF has_client(source)
    THEN [client |-> source._client, transaction |-> source]
    ELSE [client |-> source, transaction |-> None]

default_retry(value) == IF value # None THEN value ELSE default_param

FirestoreLocation_firestore_collection(cls, args) ==
    IF ~(Len(cls.firestore_location) > 0) THEN Raised("AssertionError")
    ELSE IF ~(Len(args) = Len(cls.firestore_location) - 1) THEN Raised("AssertionError")
    ELSE FirestoreCollection(Tuple(takewhile_not_None(chain_from_iterable(
             zip_longest(cls.firestore_location, reversed(args))))))

FirestoreLocation_firestore_document(cls, id, args) ==
    LET collection == FirestoreLocation_firestore_collection(cls, args)
    IN IF collection.raised THEN collection
       ELSE FirestoreCollection_document(collection.value, id)

FirestoreLocation_document_reference(cls, client, id, args) ==
    LET document == FirestoreLocation_firestore_document(cls, id, args)
    IN IF document.raised THEN document
       ELSE FirestoreDocument_to_firestore(document.value)

\* the keywords to_python takes besides the ones the call site gives itself
to_python_names ==
    {"include", "exclude", "exclude_unset", "exclude_defaults", "exclude_none",
     "round_trip", "warnings", "fallback", "serialize_as_any", "context"}

\* **kwargs of a method whose signature names some keywords
rest(kwargs, named) == {p \in kwargs : p[1] \notin named}

FirestoreLocation_firestore_create(cls, source, data, id, args, kwargs) ==
    LET st == Location_source_to_tuple(source)
        reference == FirestoreLocation_document_reference(cls, st.client, id, args)
        extra == rest(kwargs, {"retry", "timeout"})
        dumped == to_python(data, kwget(extra, "exclude_unset", Bool(FALSE)))
    IN IF reference.raised THEN reference
       ELSE IF ~(kwnames(extra) \subseteq to_python_names) THEN Raised("TypeError")
       ELSE Returned(
           [handed |-> [handler |-> None, method |-> "create",
                        reference |-> reference.value, data |-> dumped],
            effect |->
              IF st.transaction # None
              THEN [on |-> "writer", writer |-> st.transaction, returns |-> FALSE,
                    call |-> [name |-> "create", reference |-> reference.value,
                              data |-> dumped]]
              ELSE [on |-> "reference", returns |-> TRUE,
                    call |-> [name |-> "create", data |-> dumped,
                              timeout |-> kwget(kwargs, "timeout", None),
                              retry |-> default_retry(kwget(kwargs, "retry", None))]]])

FirestoreLocation_firestore_set(cls, source, data, id, args, kwargs) ==
    LET st == Location_source_to_tuple(source)
        reference == FirestoreLocation_document_reference(cls, st.client, id, args)
        extra == rest(kwargs, {"retry", "timeout", "merge"})
        dumped == to_python(data, kwget(extra, "exclude_unset", Bool(FALSE)))
    IN IF reference.raised THEN reference
       ELSE IF ~(kwnames(extra) \subseteq to_python_names) THEN Raised("TypeError")
       ELSE Returned(
           [handed |-> [handler |-> None, method |-> "set",
                        reference |-> reference.value, data |-> dumped],
            effect |->
              IF st.transaction # None
              THEN [on |-> "writer", writer |-> st.transaction, returns |-> FALSE,
                    call |-> [name |-> "set", reference |-> reference.value,
                              data |-> dumped,
                              merge |-> kwget(kwargs, "merge", Bool(FALSE))]]
              ELSE [on |-> "reference", returns |-> TRUE,
                    call |-> [name |-> "set", data |-> dumped,
                              merge |-> kwget(kwargs, "merge", Bool(FALSE)),
                              timeout |-> kwget(kwargs, "timeout", None),
                              retry |-> default_retry(kwget(kwargs, "retry", None))]]])

\* to_python(..., exclude_unset=True, **kwargs): a second exclude_unset in
\* kwargs is a TypeError
FirestoreLocation_firestore_update(cls, source, data, id, args, ignore_flatten, kwargs) ==
    LET st == Location_source_to_tuple(source)
        reference == FirestoreLocation_document_reference(cls, st.client, id, args)
        extra == rest(kwargs, {"option", "retry", "timeout"})
        flat == to_flatten(to_python(data, Bool(TRUE)), ignore_flatten)
    IN IF reference.raised THEN reference
       ELSE IF ~(kwnames(extra) \subseteq to_python_names \ {"exclude_unset"})
       THEN Raised("TypeError")
       ELSE Returned(
           [handed |-> [handler |-> None, method |-> "update",
                        reference |-> reference.value, data |-> flat],
            effect |->
              IF st.transaction # None
              THEN [on |-> "writer", writer |-> st.transaction, returns |-> FALSE,
                    call |-> [name |-> "update", reference |-> reference.value,
                              data |-> flat,
                              option |-> kwget(kwargs, "option", None)]]
              ELSE [on |-> "reference", returns |-> TRUE,
                    call |-> [name |-> "update", data |-> flat,
                              timeout |-> kwget(kwargs, "timeout", None),
                              retry |-> default_retry(kwget(kwargs, "retry", None)),
                              option |-> kwget(kwargs, "option", None)]]])

\* the signature has no **kwargs; reference.delete is not given the option
FirestoreLocation_firestore_delete(cls, source, id, args, kwargs) ==
    LET st == Location_source_to_tuple(source)
        reference == FirestoreLocation_document_reference(cls, st.client, id, args)
    IN IF ~(kwnames(kwargs) \subseteq {"option", "retry", "timeout"})
       THEN Raised("TypeError")
       ELSE IF reference.raised THEN reference
       ELSE Returned(
           [handed |-> [handler |-> None, method |-> "delete",
                        reference |-> reference.value, data |-> None],
            effect |->
              IF st.transaction # None
              THEN [on |-> "writer", writer |-> st.transaction, returns |-> FALSE,
                    call |-> [name |-> "delete", reference |-> reference.value,
                              option |-> kwget(kwargs, "option", None)]]
              ELSE [on |-> "reference", returns |-> TRUE,
                    call |-> [name |-> "delete",
                              timeout |-> kwget(kwargs, "timeout", None),
                              retry |-> default_retry(kwget(kwargs, "retry", None))]]])

\* cls.firestore_create(...) and the others, looked up on the record class
firestore_create(cls, source, data, id, args, kwargs) ==
    IF cls.base = "FirestoreModel"
    THEN FirestoreModel_firestore_create(cls, source, data, id, args, kwargs)
    ELSE FirestoreLocation_firestore_create(cls, source, data, id, args, kwargs)

firestore_set(cls, source, data, id, args, kwargs) ==
    IF cls.base = "FirestoreModel"
    THEN FirestoreModel_firestore_set(cls, source, data, id, args, kwargs)
    ELSE FirestoreLocation_firestore_set(cls, source, data, id, args, kwargs)

firestore_update(cls, source, data, id, args, ignore_flatten, kwargs) ==
    IF cls.base = "FirestoreModel"
    THEN FirestoreModel_firestore_update(cls, source, data, id, args, ignore_flatten, kwargs)
    ELSE FirestoreLocation_firestore_update(cls, source, data, id, args, ignore_flatten, kwargs)

firestore_delete(cls, source, id, args, kwargs) ==
    IF cls.base = "FirestoreModel"
    THEN FirestoreModel_firestore_delete(cls, source, id, args, kwargs)
    ELSE FirestoreLocation_firestore_delete(cls, source, id, args, kwargs)

(***************************************************************************)
(* transforms.py: Sentinel and the serializer of a FirestoreSentinel field.*)
(* A str that is only compared, never split, is written as one string.    *)
(***************************************************************************)
\* the values of the members: auto() of a StrEnum is the lower-cased name
SentinelValues ==
    {"firestore_timestamp", "firestore_delete", "firestore_remove", "firestore_union",
     "firestore_increment", "firestore_maximum", "firestore_minimum"}

Member(v) == [type |-> "Sentinel", v |-> v]

FIRESTORE_TIMESTAMP == Member("firestore_timestamp")
FIRESTORE_DELETE == Member("firestore_delete")
FIRESTORE_REMOVE == Member("firestore_remove")
FIRESTORE_UNION == Member("firestore_union")
FIRESTORE_INCREMENT == Member("firestore_increment")
FIRESTORE_MAXIMUM == Member("firestore_maximum")
FIRESTORE_MINIMUM == Member("firestore_minimum")

List(t) == [type |-> "list", v |-> t]

\* isinstance(x, Sentinel)
isSentinel(x) == x.type = "Sentinel"

\* x in Sentinel: a member, or the value of a member
Sentinel_contains(x) ==
    isSentinel(x) \/ (x.type = "str" /\ x.v \in SentinelValues)

\* Sentinel(x): the member with that value
Sentinel(x) ==
    IF isSentinel(x) THEN Returned(x)
    ELSE IF x.type = "str" /\ x.v \in SentinelValues THEN Returned(Member(x.v))
    ELSE Raised("ValueError")

\* google.cloud.firestore_v1.transforms: the two constants, the array
\* operations (a list or a tuple, not empty) and the numeric ones (a number)
SERVER_TIMESTAMP == [type |-> "transforms.Sentinel", description |-> "SERVER_TIMESTAMP"]
DELETE_FIELD == [type |-> "transforms.Sentinel", description |-> "DELETE_FIELD"]

ValueList(class, values) ==
    IF values.type \in {"list", "tuple"} /\ Len(values.v) > 0
    THEN Returned([type |-> class, values |-> values])
    ELSE Raised("ValueError")

NumericValue(class, value) ==
    IF value.type \in {"int", "float"}
    THEN Returned([type |-> class, value |-> value])
    ELSE Raised("ValueError")

ArrayRemove(values) == ValueList("ArrayRemove", values)
ArrayUnion(values) == ValueList("ArrayUnion", values)
Increment(value) == NumericValue("Increment", value)
Maximum(value) == NumericValue("Maximum", value)
Minimum(value) == NumericValue("Minimum", value)

\* Sentinel.firestore_mapping()[member](value)
firestore_mapping(member, value) ==
    CASE member = FIRESTORE_TIMESTAMP -> Returned(SERVER_TIMESTAMP)
      [] member = FIRESTORE_DELETE -> Returned(DELETE_FIELD)
      [] member = FIRESTORE_REMOVE -> ArrayRemove(value)
      [] member = FIRESTORE_UNION -> ArrayUnion(value)
      [] member = FIRESTORE_INCREMENT -> Increment(value)
      [] member = FIRESTORE_MAXIMUM -> Maximum(value)
      [] member = FIRESTORE_MINIMUM -> Minimum(value)
      [] OTHER -> Raised("KeyError")

\* member.to_firestore(value=value)
Sentinel_to_firestore(self, value) == firestore_mapping(self, value)

\* handler(value): the serializer of the annotated type, mode="python": a
\* record becomes the dict of its fields, a value of a built-in type is kept
handler(value) ==
    IF value.type = "Record" THEN to_python(value, Bool(FALSE)) ELSE value

\* mutant: the tag dropped, the payload serialized as it is
_serialize_sentinel_literal(value) ==
    IF /\ value.type = "tuple"
       /\ Len(value.v) = 2
       /\ (isSentinel(value.v[1]) \/ Sentinel_contains(value.v[1]))
    THEN Returned(handler(value.v[2]))
    ELSE Returned(handler(value))

_serialize_sentinel(value) ==
    IF /\ value.type = "tuple"
       /\ Len(value.v) = 2
       /\ (isSentinel(value.v[1]) \/ Sentinel_contains(value.v[1]))
    THEN LET sentinel == value.v[1]
             payload == value.v[2]
             member == Sentinel(sentinel)
         IN IF member.raised THEN member
            ELSE Sentinel_to_firestore(member.value, handler(payload))
    ELSE Returned(handler(value))

(***************************************************************************)
(* snapshot.py, document.py and the read classmethods.  The backend is the *)
(* mapping of document paths to the stored data (None: no such document);  *)
(* the native reference.get answers with a DocumentSnapshot of it.         *)
(***************************************************************************)
TheTime == [type |-> "datetime", name |-> "time"]

\* reference.get(transaction=..., field_paths=None, ...): the native snapshot
DocumentReference_get(reference, documents) ==
    LET data == documents[reference._path]
    IN [type |-> "DocumentSnapshot",
        _reference |-> reference,
        _data |-> data,
        _exists |-> data # None,
        read_time |-> TheTime,
        create_time |-> IF data # None THEN TheTime ELSE None,
        update_time |-> IF data # None THEN TheTime ELSE None]

\* a time that is not a datetime and has ToDatetime is converted
ToDatetime(value) == [type |-> "datetime", name |-> value.name]

fix_time(value) ==
    IF value # None /\ value.type # "datetime" /\ value.type = "Timestamp"
    THEN ToDatetime(value) ELSE value

fix_snapshot(obj) ==
    [obj EXCEPT !.create_time = fix_time(@),
                !.update_time = fix_time(@),
                !.read_time = fix_time(@)]

\* reference.py: the wrap validator of a collection field
_validate_collection(value) ==
    IF value.type = "FirestoreCollection" THEN Returned(value)
    ELSE IF value.type = "tuple"
    THEN LET p == FirestorePath(value)
         IN FirestoreCollection(IF is_document(p) THEN FirestorePath_parent(p) ELSE p)
    ELSE FirestoreCollection(value)

\* cls.firestore_context(**kwargs)
FirestoreModel_firestore_context(cls, kwargs) ==
    [firestore_id_field |-> cls.firestore_id_field,
     firestore_path_fields |-> cls.firestore_path_fields]

\* d.setdefault(key, value)
setdefault(d, key, value) == IF key \in Keys(d) THEN d ELSE SetItem(d, key, value)

\* reference.py: ReferenceModel.__iter__: the segments of the reference's path
ReferenceModel_iter(self) == [i \in 1..Len(self.root.root) |-> Str(self.root.root[i])]

\* for (path_field, path_item) in zip(path_fields, path): value.setdefault(...)
RECURSIVE setdefault_zip(_, _, _)
setdefault_zip(d, names, items) ==
    IF Len(names) = 0 \/ Len(items) = 0 THEN d
    ELSE setdefault_zip(setdefault(d, names[1], items[1]), Tail(names), Tail(items))

\* the data field of DocumentModel[cls]: the record class validates a dict of
\* its fields; every field given counts as set
DocumentModel_data(cls, value) ==
    IF value.type = "dict"
       /\ \A i \in 1..Len(value.items) : value.items[i][2].type \in {"int", "dict", "str"}
    THEN Returned([type |-> "Record", fields |-> value, fields_set |-> Keys(value)])
    ELSE Raised("ValidationError")

\* handler(value) of the document field: Optional[DocumentModel[cls]]
DocumentModel(cls, value) ==
    IF value = None THEN Returned(None)
    ELSE IF value.type # "dict" \/ Keys(value) # {"create_time", "update_time", "data"}
    THEN Raised("ValidationError")
    ELSE LET data == DocumentModel_data(cls, Get(value, "data"))
         IN IF data.raised THEN data
            ELSE Returned([type |-> "DocumentModel",
                           create_time |-> Get(value, "create_time"),
                           update_time |-> Get(value, "update_time"),
                           data |-> data.value])

\* document.py: the wrap validator of the document field
_validate_document(cls, value, info) ==
    LET create_time == info.data.create_time
        update_time == info.data.update_time
        is_snapshot == create_time # None /\ update_time # None
        context == info.context
        with_id == IF context # None /\ context.firestore_id_field # None
                   THEN setdefault(value, context.firestore_id_field.v,
                                   Str(info.data.id))
                   ELSE value
        with_path == IF context # None /\ Len(context.firestore_path_fields) > 0
                     THEN setdefault_zip(with_id, context.firestore_path_fields,
                                         ReferenceModel_iter(info.data.path))
                     ELSE with_id
    IN IF is_snapshot /\ value # None /\ value.type = "dict"
       THEN DocumentModel(cls, Dict(<< <<"create_time", create_time>>,
                                       <<"update_time", update_time>>,
                                       <<"data", with_path>> >>))
       ELSE DocumentModel(cls, value)

\* FirestoreSnapshot[cls].from_firestore(snapshot, strict, context): the fields
\* are validated in declaration order from the snapshot's attributes
FirestoreSnapshot_from_firestore(cls, snapshot, context) ==
    LET obj == fix_snapshot(snapshot)
        id == obj._reference._path[Len(obj._reference._path)]
        collection == _validate_collection(Tuple(obj._reference._path))
        info == [data |-> [id |-> id, path |-> collection.value,
                           read_time |-> obj.read_time,
                           create_time |-> obj.create_time,
                           update_time |-> obj.update_time],
                 context |-> context]
        document == _validate_document(cls, obj._data, info)
    IN IF collection.raised THEN Raised("ValidationError")
       ELSE IF document.raised THEN document
       ELSE Returned([type |-> "FirestoreSnapshot",
                      id |-> id,
                      path |-> collection.value,
                      read_time |-> obj.read_time,
                      create_time |-> obj.create_time,
                      update_time |-> obj.update_time,
                      document |-> document.value])

\* model.py: source_to_tuple(source)
Model_source_to_tuple(source) ==
    IF source.type = "Transaction"
    THEN Returned([client |-> source._client, transaction |-> source])
    ELSE IF source.type = "Client"
    THEN Returned([client |-> source, transaction |-> None])
    ELSE Raised("ValueError")

\* model.py: async_source_to_tuple(source)
async_source_to_tuple(source) ==
    IF source.type = "AsyncTransaction"
    THEN Returned([client |-> source._client, transaction |-> source])
    ELSE IF source.type = "AsyncClient"
    THEN Returned([client |-> source, transaction |-> None])
    ELSE Raised("ValueError")

\* model.py: await cls.firestore_read_async(source, id, *args)
FirestoreModel_firestore_read_async(cls, source, id, args, documents) ==
    LET st == async_source_to_tuple(source)
        reference == FirestoreModel_document_reference(cls, st.value.client, id, args)
    IN IF st.raised THEN st
       ELSE IF reference.raised THEN reference
       ELSE FirestoreSnapshot_from_firestore(
                cls, DocumentReference_get(reference.value, documents),
                FirestoreModel_firestore_context(cls, {}))

\* typing.overload(func): the function is replaced by a dummy that raises
overload(func) == Raised("NotImplementedError")

\* model.py: the function written under @overload @classmethod
FirestoreModel_firestore_read_func(cls, source, id, args, documents) ==
    LET st == Model_source_to_tuple(source)
        reference == FirestoreModel_document_reference(cls, st.value.client, id, args)
    IN IF st.raised THEN st
       ELSE IF reference.raised THEN reference
       ELSE FirestoreSnapshot_from_firestore(
                cls, DocumentReference_get(reference.value, documents),
                FirestoreModel_firestore_context(cls, {}))

\* model.py: cls.firestore_read(source, id, *args): the only definition of the
\* name is the overload, no implementation follows it
FirestoreModel_firestore_read(cls, source, id, args, documents) ==
    overload(FirestoreModel_firestore_read_func(cls, source, id, args, documents))

\* location.py: cls.firestore_read(source, id, *args): no context is passed
FirestoreLocation_firestore_read(cls, source, id, args, documents) ==
    LET st == Location_source_to_tuple(source)
        reference == FirestoreLocation_document_reference(cls, st.client, id, args)
    IN IF reference.raised THEN reference
       ELSE FirestoreSnapshot_from_firestore(
                cls, DocumentReference_get(reference.value, documents), None)

firestore_collection(cls, args) ==
    IF cls.base = "FirestoreModel"
    THEN FirestoreModel_firestore_collection(cls, args)
    ELSE FirestoreLocation_firestore_collection(cls, args)

firestore_document(cls, id, args) ==
    IF cls.base = "FirestoreModel"
    THEN FirestoreModel_firestore_document(cls, id, args)
    ELSE FirestoreLocation_firestore_document(cls, id, args)

firestore_read(cls, source, id, args, documents) ==
    IF cls.base = "FirestoreModel"
    THEN FirestoreModel_firestore_read(cls, source, id, args, documents)
    ELSE FirestoreLocation_firestore_read(cls, source, id, args, documents)

\* model.py: what a class statement with base FirestoreModel and this body
\* leaves before __init_subclass__ runs: the body's attributes, the others
\* inherited from the base
FirestoreModel_class(name, body) ==
    [name |-> name, base |-> "FirestoreModel",
     firestore_id_field |-> None,
     firestore_path_fields |-> <<>>,
     firestore_location |-> kwget(body, "firestore_location", <<>>),
     firestore_config |-> kwget(body, "firestore_config", {})]

\* model.py: FirestoreModel.__init_subclass__(cls), nested being the record
\* classes among cls.__dict__.values()
FirestoreModel_init_subclass(cls, nested) ==
    LET id_field == kwget(cls.firestore_config, "id_field", None)
        location == kwget(cls.firestore_config, "location", None)
        path_fields == kwget(cls.firestore_config, "path_fields", None)
        c1 == IF id_field # None THEN [cls EXCEPT !.firestore_id_field = id_field]
              ELSE cls
        c2 == IF location # None
              THEN [c1 EXCEPT !.firestore_location =
                       IF location.type = "str" THEN <<location.v>> ELSE location.v]
              ELSE c1
        c3 == IF path_fields # None
              THEN [c2 EXCEPT !.firestore_path_fields = path_fields.v]
              ELSE c2
    IN [cls |-> c3,
        nested |-> [n \in DOMAIN nested |->
            IF c3.firestore_location # <<>> /\ nested[n].base = "FirestoreModel"
            THEN [nested[n] EXCEPT !.firestore_location = c3.firestore_location,
                                   !.firestore_id_field = c3.firestore_id_field,
                                   !.firestore_path_fields = c3.firestore_path_fields]
            ELSE nested[n]]]

\* location.py: a class statement with base FirestoreLocation
FirestoreLocation_class(name, body) ==
    [name |-> name, base |-> "FirestoreLocation",
     firestore_location |-> kwget(body, "firestore_location", <<>>)]

\* location.py: FirestoreLocation.__init_subclass__(cls)
FirestoreLocation_init_subclass(cls, nested) ==
    [cls |-> cls,
     nested |-> [n \in DOMAIN nested |->
         IF cls.firestore_location # <<>> /\ nested[n].base = "FirestoreLocation"
         THEN [nested[n] EXCEPT !.firestore_location = cls.firestore_location]
         ELSE nested[n]]]

\* class name(base): body, the classes in nested being defined in the body
class(name, base, body, nested) ==
    IF base = "FirestoreModel"
    THEN FirestoreModel_init_subclass(FirestoreModel_class(name, body), nested)
    ELSE FirestoreLocation_init_subclass(FirestoreLocation_class(name, body), nested)


(***************************************************************************)
(* model.py: the instance writes.  A record instance knows its class; the  *)
(* value of a str field is a str.                                          *)
(***************************************************************************)
\* getattr(self, name), name a field of the record
getattr(self, name) ==
    IF name = None THEN Raised("TypeError")
    ELSE IF name.v \in Keys(self.fields) THEN Returned(Get(self.fields, name.v))
    ELSE Raised("AttributeError")

\* tuple(getattr(self, field_name) for field_name in names)
getattr_each(self, names) == [i \in 1..Len(names) |-> getattr(self, Str(names[i]))]

\* mutant: the supplied segments kept whatever their number
_firestore_path_supplied(self, args) ==
    LET id == getattr(self, self.cls.firestore_id_field)
    IN IF Len(args) = Len(self.cls.firestore_location)
       THEN IF Len(args) = 0 THEN Raised("ValueError")
            ELSE Returned([id |-> Head(args), args |-> Tail(args)])
       ELSE IF id.raised THEN id
       ELSE Returned([id |-> id.value.v, args |-> args])

\* self._firestore_path(*args)
_firestore_path(self, args) ==
    LET len_args == Len(args)
        len_loc == Len(self.cls.firestore_location)
        id == getattr(self, self.cls.firestore_id_field)
        fields == getattr_each(self, self.cls.firestore_path_fields)
    IN IF len_args = len_loc
       THEN \* id, *args = args
            IF len_args = 0 THEN Raised("ValueError")
            ELSE Returned([id |-> Head(args), args |-> Tail(args)])
       ELSE IF len_args = len_loc - 1
       THEN IF id.raised THEN id
            ELSE Returned([id |-> id.value.v, args |-> args])
       ELSE IF id.raised THEN id
       ELSE IF \E i \in 1..Len(fields) : fields[i].raised
       THEN fields[CHOOSE i \in 1..Len(fields) :
                      /\ fields[i].raised
                      /\ \A j \in 1..(i - 1) : ~fields[j].raised]
       ELSE Returned([id |-> id.value.v,
                      args |-> [i \in 1..Len(fields) |-> fields[i].value.v]])

\* self.create_to_firestore(source, *args, context=context, **kwargs)
create_to_firestore(self, source, args, context, kwargs) ==
    LET r == _firestore_path(self, args)
    IN IF r.raised THEN r
       ELSE FirestoreModel_firestore_create(self.cls, source, self, r.value.id,
                r.value.args, kwargs \cup {<<"context", context>>})

\* self.set_to_firestore(source, *args, context=context, **kwargs)
set_to_firestore(self, source, args, context, kwargs) ==
    LET r == _firestore_path(self, args)
    IN IF r.raised THEN r
       ELSE FirestoreModel_firestore_set(self.cls, source, self, r.value.id,
                r.value.args, kwargs \cup {<<"context", context>>})

\* self.update_to_firestore(source, *args, ignore_flatten=..., context=..., **kwargs)
update_to_firestore(self, source, args, ignore_flatten, context, kwargs) ==
    LET r == _firestore_path(self, args)
    IN IF r.raised THEN r
       ELSE FirestoreModel_firestore_update(self.cls, source, self, r.value.id,
                r.value.args, ignore_flatten, kwargs \cup {<<"context", context>>})

\* self.delete_to_firestore(source, *args, **kwargs)
delete_to_firestore(self, source, args, kwargs) ==
    LET r == _firestore_path(self, args)
    IN IF r.raised THEN r
       ELSE FirestoreModel_firestore_delete(self.cls, source, r.value.id,
                r.value.args, kwargs)


(***************************************************************************)
(* model.py: @lru_cache on source_to_handler.  The cache keeps at most     *)
(* maxsize entries, least recently used first; a Source is its key by      *)
(* identity.  An entry holds the handler instance the body made.           *)
(***************************************************************************)
\* functools.lru_cache used without arguments: maxsize=128
maxsize == 128

\* the index of the key's entry, 0 when there is none
lru_find(entries, key) ==
    IF \E i \in 1..Len(entries) : entries[i].key = key
    THEN CHOOSE i \in 1..Len(entries) : entries[i].key = key
    ELSE 0

\* a hit: the entry becomes the most recently used
lru_touch(entries, i) ==
    SubSeq(entries, 1, i - 1) \o SubSeq(entries, i + 1, Len(entries)) \o <<entries[i]>>

\* a miss whose body returned: the result is added, the least recently used
\* entry making room when the cache is full
lru_add(entries, entry) ==
    IF Len(entries) >= maxsize THEN Append(Tail(entries), entry)
    ELSE Append(entries, entry)


(***************************************************************************)
(* Paths: build one, then read parent or append a segment.                 *)
(***************************************************************************)
PathIdle ==
    /\ path = None
    /\ pvalue = None
    /\ pcall = [name |-> "none"]
    /\ presult = None

RefIdle ==
    /\ ref = None
    /\ rcall = [name |-> "none"]
    /\ rresult = None

FlatIdle ==
    /\ fobj = None
    /\ fexclude = None
    /\ fresult = None
    /\ fother = None

WriteIdle ==
    /\ queue = <<>>
    /\ issued = <<>>
    /\ wcall = [name |-> "none"]
    /\ handed = None
    /\ refcalls = <<>>
    /\ wresult = None
    /\ ncalls = 0

SentIdle ==
    /\ svalue = None
    /\ sresult = None

StoreIdle ==
    /\ store = <<>>
    /\ written = <<>>
    /\ dcall = [name |-> "none"]
    /\ dresult = None

TypeIdle ==
    /\ types = <<>>
    /\ declared = <<>>

CacheIdle ==
    /\ cache = <<>>
    /\ runs = <<>>
    /\ given = <<>>
    /\ instances = 0
    /\ ccall = [name |-> "none"]

InitPath == PathIdle /\ RefIdle /\ FlatIdle /\ WriteIdle /\ SentIdle /\ StoreIdle /\ TypeIdle /\ CacheIdle

\* FirestorePath(seq) and FirestorePath("a/b")
PathNew ==
    \E value \in {Str(s) : s \in Strings} \cup {Tuple(t) : t \in Tuples} :
        /\ pvalue' = value
        /\ path' = FirestorePath(value)
        /\ pcall' = [name |-> "new"]
        /\ presult' = None
        /\ UNCHANGED exceptPath

\* p.parent: the object is frozen, its root is not assigned
PathParent ==
    /\ path # None
    /\ presult' = FirestorePath_parent(path)
    /\ pcall' = [name |-> "parent"]
    /\ UNCHANGED <<path, pvalue, exceptPath>>

\* p / seg
PathTruediv ==
    /\ path # None
    /\ \E seg \in Segments :
        /\ presult' = FirestorePath_truediv(path, seg)
        /\ pcall' = [name |-> "truediv", other |-> seg]
    /\ UNCHANGED <<path, pvalue, exceptPath>>

NextPath == PathNew \/ PathParent \/ PathTruediv

SpecPath == InitPath /\ [][NextPath]_vars

(***************************************************************************)
(* Properties of paths.                                                    *)
(***************************************************************************)
\* the Paths of the data model: at least one segment, none of them empty
WellFormed(p) ==
    /\ Len(p.root) >= 1
    /\ \A i \in 1..Len(p.root) : p.root[i] # <<>>

\* C4: constructing a Path fails when the segment sequence is empty or holds an
\* empty segment, from a sequence as from a str split on "/": no Path with
\* zero segments or an empty segment ever exists.
C4_NoMalformedPath == path # None => WellFormed(path)

\* C5: for every non-empty segment sequence s, Path(s).is_document equals
\* (len(s) % 2 == 0), and exactly one of is_document and is_collection holds.
C5_Parity ==
    (path # None /\ pvalue.type = "tuple" /\ Len(pvalue.v) >= 1) =>
        /\ is_document(path) <=> (Len(pvalue.v) % 2 = 0)
        /\ is_document(path) # is_collection(path)

C5_Witness ==
    /\ path # None /\ pvalue.type = "tuple"
    /\ Len(pvalue.v) = 3 /\ is_collection(path) /\ ~is_document(path)

\* C6: for every Path p with more than one segment, p.parent / p.id == p; the
\* parent of a length-1 Path is None and otherwise has exactly one segment
\* fewer; p / seg returns a new Path and leaves p's segments unchanged.
C6_ParentAppend ==
    path # None =>
        /\ Len(path.root) > 1 =>
              FirestorePath_truediv(FirestorePath_parent(path),
                                    FirestorePath_id(path).value) = path
        /\ pcall.name = "parent" =>
              IF Len(path.root) = 1 THEN presult = None
              ELSE /\ presult # None
                   /\ Len(presult.root) = Len(path.root) - 1
        /\ pcall.name = "truediv" =>
              /\ presult.root = Append(path.root, pcall.other)
              /\ path = FirestorePath(pvalue)

(***************************************************************************)
(* References: build one from a value or from a native reference, and      *)
(* convert it to a native reference.                                       *)
(***************************************************************************)
Classes == {"FirestoreDocument", "FirestoreCollection"}

New(cls, value) ==
    IF cls = "FirestoreDocument" THEN FirestoreDocument(value)
    ELSE FirestoreCollection(value)

\* the native references there are
NativeReferences ==
    {DocumentReference(t).value : t \in {u \in Tuples : Len(u) > 0 /\ Len(u) % 2 = 0}}
    \cup {CollectionReference(t).value : t \in {u \in Tuples : Len(u) % 2 = 1}}

Held(result) == IF result.raised THEN None ELSE result.value

\* FirestoreDocument(root=value), FirestoreCollection(root=value)
RefNew ==
    \E cls \in Classes,
       value \in {Str(s) : s \in Strings} \cup {Tuple(t) : t \in Tuples} :
        /\ rresult' = New(cls, value)
        /\ ref' = Held(New(cls, value))
        /\ rcall' = [name |-> "new", cls |-> cls, value |-> value]
        /\ UNCHANGED exceptRef

\* cls.from_firestore(native)
RefFromFirestore ==
    \E cls \in Classes, native \in NativeReferences :
        LET result == IF cls = "FirestoreDocument"
                      THEN FirestoreDocument_from_firestore(native)
                      ELSE FirestoreCollection_from_firestore(native)
        IN /\ rresult' = result
           /\ ref' = Held(result)
           /\ rcall' = [name |-> "from_firestore", cls |-> cls, value |-> native]
           /\ UNCHANGED exceptRef

\* ref.to_firestore(client), on the reference just built
RefToFirestore ==
    /\ ref # None
    /\ rcall.name \in {"new", "from_firestore"}
    /\ rresult' = IF ref.type = "FirestoreDocument"
                  THEN FirestoreDocument_to_firestore(ref)
                  ELSE FirestoreCollection_to_firestore(ref)
    /\ rcall' = [name |-> "to_firestore", cls |-> rcall.cls, value |-> rcall.value]
    /\ UNCHANGED <<ref, exceptRef>>

NextRef == RefNew \/ RefFromFirestore \/ RefToFirestore

InitRef == PathIdle /\ RefIdle /\ FlatIdle /\ WriteIdle /\ SentIdle /\ StoreIdle /\ TypeIdle /\ CacheIdle

SpecRef == InitRef /\ [][NextRef]_vars

\* the number of segments of a constructor argument, counted on the argument
NumSegments(value) ==
    IF value.type = "tuple" THEN Len(value.v)
    ELSE 1 + Cardinality({i \in 1..Len(value.v) : value.v[i] = "/"})

\* C1: building a FirestoreDocument from a path with an odd number of segments
\* fails and building a FirestoreCollection from one with an even number fails:
\* no such object is returned.
C1_WrongParityRejected ==
    /\ rcall.name = "new" =>
          /\ (rcall.cls = "FirestoreDocument" /\ NumSegments(rcall.value) % 2 = 1)
                => (rresult.raised /\ ref = None)
          /\ (rcall.cls = "FirestoreCollection" /\ NumSegments(rcall.value) % 2 = 0)
                => (rresult.raised /\ ref = None)
    /\ ref # None =>
          /\ ref.type = "FirestoreDocument" => Len(ref.root.root) % 2 = 0
          /\ ref.type = "FirestoreCollection" => Len(ref.root.root) % 2 = 1

\* ("col",) is rejected as a document, and ("col", "0") was rejected as a collection
C1_Witness ==
    /\ rcall.name = "new" /\ rresult.raised
    /\ \/ rcall.cls = "FirestoreDocument" /\ rcall.value = Tuple(<<(<<"a">>)>>)
       \/ rcall.cls = "FirestoreCollection" /\ rcall.value = Tuple(<<(<<"a">>), <<"b">>>>)

\* C3: conversion to and from the backend keeps the path: from_firestore of a
\* native document reference with path p holds exactly p, and
\* FirestoreDocument(p).to_firestore(client) is a native reference with path p;
\* the same for collections.
NativeType(cls) ==
    IF cls = "FirestoreDocument" THEN "DocumentReference" ELSE "CollectionReference"

C3_ConversionKeepsPath ==
    /\ (rcall.name = "from_firestore" /\ rcall.value.type = NativeType(rcall.cls)) =>
          /\ ~rresult.raised
          /\ rresult.value.type = rcall.cls
          /\ rresult.value.root.root = rcall.value._path
    /\ (rcall.name = "to_firestore" /\ rcall.value.type = "tuple"
            /\ Len(rcall.value.v) >= 1) =>
          /\ ~rresult.raised
          /\ rresult.value.type = NativeType(rcall.cls)
          /\ rresult.value._path = rcall.value.v
    /\ (rcall.name = "to_firestore" /\ rcall.value.type = NativeType(rcall.cls)) =>
          rresult = Returned(rcall.value)

C3_Witness ==
    /\ rcall.name = "to_firestore" /\ rcall.cls = "FirestoreCollection"
    /\ rcall.value = Tuple(<<(<<"a">>), <<"b">>, <<"a">>>>)
    /\ ~rresult.raised /\ rresult.value._path = <<(<<"a">>), <<"b">>, <<"a">>>>

(***************************************************************************)
(* Navigation: from a reference of the data model (a path of one segment   *)
(* or more, of the variant's parity), document(id), collection(id), parent.*)
(***************************************************************************)
ValidReferences ==
    {Held(New(cls, Tuple(t))) : cls \in Classes, t \in {u \in Tuples : Len(u) >= 1}}
        \ {None}

InitNav ==
    /\ ref \in ValidReferences
    /\ rcall = [name |-> "init"]
    /\ rresult = Returned(ref)
    /\ PathIdle /\ FlatIdle /\ WriteIdle /\ SentIdle /\ StoreIdle /\ TypeIdle /\ CacheIdle

\* x = x.document(id)
NavDocument ==
    /\ ref.type = "FirestoreCollection"
    /\ Len(ref.root.root) <= MaxPathLen
    /\ \E id \in Segments :
        /\ rresult' = FirestoreCollection_document(ref, id)
        /\ ref' = IF FirestoreCollection_document(ref, id).raised THEN ref
                  ELSE FirestoreCollection_document(ref, id).value
        /\ rcall' = [name |-> "document", self |-> ref, id |-> id]
    /\ UNCHANGED exceptRef

\* x = x.collection(id)
NavCollection ==
    /\ ref.type = "FirestoreDocument"
    /\ Len(ref.root.root) <= MaxPathLen
    /\ \E id \in Segments :
        /\ rresult' = FirestoreDocument_collection(ref, id)
        /\ ref' = IF FirestoreDocument_collection(ref, id).raised THEN ref
                  ELSE FirestoreDocument_collection(ref, id).value
        /\ rcall' = [name |-> "collection", self |-> ref, id |-> id]
    /\ UNCHANGED exceptRef

\* x.parent, and x = x.parent when there is one
NavParent ==
    LET result == IF ref.type = "FirestoreDocument"
                  THEN FirestoreDocument_parent(ref)
                  ELSE FirestoreCollection_parent(ref)
    IN /\ rresult' = result
       /\ ref' = IF result.raised \/ result.value = None THEN ref ELSE result.value
       /\ rcall' = [name |-> "parent", self |-> ref]
       /\ UNCHANGED exceptRef

NextNav == NavDocument \/ NavCollection \/ NavParent

SpecNav == InitNav /\ [][NextNav]_vars

\* C2: from any valid reference, every document(id), collection(id) and parent
\* that returns a reference succeeds and returns the opposite variant, parent
\* is None exactly at a path of length 1, and always a FirestoreDocument holds
\* an even-length path and a FirestoreCollection an odd-length one.
C2_NavigationKeepsParity ==
    /\ ~rresult.raised
    /\ (rcall.name # "init" /\ rresult.value # None) =>
          /\ rresult.value.type \in Classes
          /\ rresult.value.type # rcall.self.type
          /\ ref = rresult.value
    /\ rcall.name \in {"document", "collection"} =>
          rresult.value.root.root = Append(rcall.self.root.root, rcall.id)
    /\ rcall.name = "parent" =>
          (rresult.value = None <=> Len(rcall.self.root.root) = 1)
    /\ ref.type = "FirestoreDocument" => Len(ref.root.root) % 2 = 0
    /\ ref.type = "FirestoreCollection" => Len(ref.root.root) % 2 = 1

\* parent read at a root collection
C2_Witness ==
    /\ rcall.name = "parent" /\ rresult.value = None
    /\ rcall.self.type = "FirestoreCollection" /\ Len(rcall.self.root.root) = 1

(***************************************************************************)
(* Flattening: a nested record is built key by key, then flattened with an *)
(* exclude argument.                                                       *)
(***************************************************************************)
\* the record of the documentation: {"a": {"b": 1, "c": 2}, "d": 3}
Example ==
    Dict(<< <<(<<"a">>), Dict(<< <<(<<"b">>), IntValue(1)>>,
                                 <<(<<"c">>), IntValue(2)>> >>)>>,
            <<(<<"d">>), IntValue(3)>> >>)

FlatKeys == {<<"a">>, <<"b">>}
FlatValues == {IntValue(1), IntValue(2), Dict(<<>>)}
\* "a", "b", "a.b"
ExcludePool == {<<"a">>, <<"b">>, <<"a", ".", "b">>}

\* the key paths of the nodes of a record, and the value at one
RECURSIVE NodePaths(_)
NodePaths(d) ==
    UNION {{<<d.items[i][1]>>} \cup
           (IF isMapping(d.items[i][2])
            THEN {<<d.items[i][1]>> \o q : q \in NodePaths(d.items[i][2])}
            ELSE {}) : i \in 1..Len(d.items)}

RECURSIVE ValueAt(_, _)
ValueAt(d, q) ==
    IF Len(q) = 0 THEN d ELSE ValueAt(Get(d, q[1]), Tail(q))

\* record[q[1]]...[q[n]][key] = value
RECURSIVE Insert(_, _, _, _)
Insert(d, q, key, value) ==
    IF Len(q) = 0 THEN SetItem(d, key, value)
    ELSE SetItem(d, q[1], Insert(Get(d, q[1]), Tail(q), key, value))

InitFlatten ==
    /\ fobj \in {Dict(<<>>), Example}
    /\ fexclude = None
    /\ fresult = None
    /\ fother = None
    /\ PathIdle /\ RefIdle /\ WriteIdle /\ SentIdle /\ StoreIdle /\ TypeIdle /\ CacheIdle

\* the caller adds a key to the record, at the top or in a nested mapping
FlatSetItem ==
    /\ Cardinality(NodePaths(fobj)) < MaxNodes
    /\ \E q \in {<<>>} \cup {r \in NodePaths(fobj) : isMapping(ValueAt(fobj, r))} :
       \E key \in FlatKeys \ Keys(ValueAt(fobj, q)), value \in FlatValues :
          fobj' = Insert(fobj, q, key, value)
    /\ fexclude' = None
    /\ fresult' = None
    /\ UNCHANGED <<fother, exceptFlat>>

\* to_flatten(obj, exclude=exclude)
ToFlatten ==
    /\ \E exclude \in {None} \cup {Set(S) : S \in SUBSET ExcludePool} :
          /\ fexclude' = exclude
          /\ fresult' = to_flatten(fobj, exclude)
    /\ UNCHANGED <<fobj, fother, exceptFlat>>

NextFlatten == FlatSetItem \/ ToFlatten

SpecFlatten == InitFlatten /\ [][NextFlatten]_vars

\* a dict as a mapping: the set of its (key, value) pairs
AsMapping(d) == {<<d.items[i][1], d.items[i][2]>> : i \in 1..Len(d.items)}

Excluded(exclude) == IF exclude = None THEN {} ELSE exclude.v

\* the node at key path q is emitted: no node above it is excluded, and it is
\* excluded itself or its value is not a nested mapping
Emitted(obj, exclude, q) ==
    /\ \A j \in 1..(Len(q) - 1) : join(SubSeq(q, 1, j), ".") \notin Excluded(exclude)
    /\ \/ join(q, ".") \in Excluded(exclude)
       \/ ~isMapping(ValueAt(obj, q))

\* C10: to_flatten returns exactly the mapping with one entry (dotted path of
\* the ancestor keys -> value) for each node whose dotted path is excluded or
\* whose value is not a nested mapping, descending into every other node: an
\* excluded subtree is emitted whole, none of its descendants is a key.  The
\* example gives {"a.b": 1, "a.c": 2, "d": 3} with no exclusion and
\* {"a": {"b": 1, "c": 2}, "d": 3} with exclusion {"a"}.
C10_FlattenExact ==
    fresult # None =>
        /\ AsMapping(fresult) =
              {<<join(q, "."), ValueAt(fobj, q)>> :
                  q \in {r \in NodePaths(fobj) : Emitted(fobj, fexclude, r)}}
        /\ Cardinality(Keys(fresult)) = Len(fresult.items)
        /\ (fobj = Example /\ Excluded(fexclude) = {}) =>
              AsMapping(fresult) = {<<(<<"a", ".", "b">>), IntValue(1)>>,
                                    <<(<<"a", ".", "c">>), IntValue(2)>>,
                                    <<(<<"d">>), IntValue(3)>>}
        /\ (fobj = Example /\ Excluded(fexclude) = {<<"a">>}) =>
              AsMapping(fresult) = AsMapping(Example)

\* an excluded nested mapping with a key of its own, emitted whole
C10_Witness ==
    /\ fresult # None
    /\ <<"a", ".", "b">> \in Excluded(fexclude)
    /\ \E q \in NodePaths(fobj) :
          /\ Len(q) = 3 /\ q[1] = <<"a">> /\ q[2] = <<"b">>
    /\ \E i \in 1..Len(fresult.items) :
          /\ fresult.items[i][1] = <<"a", ".", "b">>
          /\ isMapping(fresult.items[i][2])

(***************************************************************************)
(* Key order: a record whose keys may hold a "." (a key of a dict field,   *)
(* an alias) is built key by key, then flattened twice: as it iterates,    *)
(* and with the keys of every mapping in reverse order.                    *)
(***************************************************************************)
\* "a", "b", "a.b"
OrderKeys == {<<"a">>, <<"b">>, <<"a", ".", "b">>}
OrderValues == {IntValue(1), IntValue(2), Dict(<<>>)}

\* the same record, every mapping of it iterated from its last key to its first
RECURSIVE Reordered(_)
Reordered(d) ==
    Dict([i \in 1..Len(d.items) |->
            LET item == d.items[Len(d.items) + 1 - i]
            IN <<item[1], IF isMapping(item[2]) THEN Reordered(item[2]) ELSE item[2]>>])

InitOrder ==
    /\ fobj = Dict(<<>>)
    /\ fexclude = None
    /\ fresult = None
    /\ fother = None
    /\ PathIdle /\ RefIdle /\ WriteIdle /\ SentIdle /\ StoreIdle /\ TypeIdle /\ CacheIdle

\* the caller adds a key to the record, at the top or in a nested mapping
OrderSetItem ==
    /\ Cardinality(NodePaths(fobj)) < MaxNodes
    /\ \E q \in {<<>>} \cup {r \in NodePaths(fobj) : isMapping(ValueAt(fobj, r))} :
       \E key \in OrderKeys \ Keys(ValueAt(fobj, q)), value \in OrderValues :
          fobj' = Insert(fobj, q, key, value)
    /\ fexclude' = None
    /\ fresult' = None
    /\ fother' = None
    /\ UNCHANGED exceptFlat

\* to_flatten(obj, exclude=exclude), on the record in both orders
OrderToFlatten ==
    /\ \E exclude \in {None, Set({<<"a">>})} :
          /\ fexclude' = exclude
          /\ fresult' = to_flatten(fobj, exclude)
          /\ fother' = to_flatten(Reordered(fobj), exclude)
    /\ UNCHANGED <<fobj, exceptFlat>>

NextOrder == OrderSetItem \/ OrderToFlatten

SpecOrder == InitOrder /\ [][NextOrder]_vars

\* a single-level mapping: no value is a mapping
IsFlat(d) == \A i \in 1..Len(d.items) : ~isMapping(d.items[i][2])

\* C11: to_flatten of a single-level mapping whose values are not mappings is
\* an equal mapping (the empty one included), and the result for a nested
\* record is the same mapping whatever the iteration order of its keys.
C11_OrderIndependent ==
    fresult # None =>
        /\ IsFlat(fobj) => AsMapping(fresult) = AsMapping(fobj)
        /\ AsMapping(fresult) = AsMapping(fother)

\* the part of C11 that the code keeps: flat input comes back equal
C11_FlatUnchanged ==
    (fresult # None /\ IsFlat(fobj)) =>
        (AsMapping(fresult) = AsMapping(fobj) /\ AsMapping(fother) = AsMapping(fobj))

(***************************************************************************)
(* Writes: the callers issue firestore_write / create / set / update /      *)
(* delete calls against sources of every kind.  The native collaborators   *)
(* are the environment: a call on a native document reference returns a    *)
(* result or fails, a call on a writer (transaction, batch, bulk writer)   *)
(* adds one operation to the writer's queue.                               *)
(***************************************************************************)
TheClient == [type |-> "Client", name |-> "client"]
TheAsyncClient == [type |-> "AsyncClient", name |-> "aclient"]
TheTransaction == [type |-> "Transaction", name |-> "txn", _client |-> TheClient]
TheWriteBatch == [type |-> "WriteBatch", name |-> "batch", _client |-> TheClient]
TheBulkWriter == [type |-> "BulkWriter", name |-> "bulk", _client |-> TheClient]
NotASource == [type |-> "str", name |-> "other"]

Sources ==
    {TheClient, TheAsyncClient, TheTransaction, TheWriteBatch, TheBulkWriter, NotASource}
Writers == {s \in Sources : has_client(s)}

\* location.py declares Source = Union[Transaction, Client]; a batch is used
\* the same way
LocationSourceTypes == {"Client", "Transaction", "WriteBatch"}

\* two record classes at the collection "c", one of each base
RecordClasses ==
    {[name |-> "M", base |-> "FirestoreModel", firestore_location |-> <<(<<"c">>)>>,
      firestore_id_field |-> None, firestore_path_fields |-> <<>>],
     [name |-> "L", base |-> "FirestoreLocation", firestore_location |-> <<(<<"c">>)>>]}

\* the documented record with every field set, and with d left at its default
Records ==
    {[type |-> "Record", fields |-> Example, fields_set |-> {<<"a">>, <<"d">>}],
     [type |-> "Record", fields |-> Example, fields_set |-> {<<"a">>}]}

TheRetry == [type |-> "Retry", name |-> "retry"]
TheOption == [type |-> "WriteOption", name |-> "option"]
TheWriteResult == [type |-> "WriteResult", name |-> "result"]

KwargsPool ==
    {{},
     {<<"timeout", IntValue(5)>>, <<"retry", TheRetry>>},
     {<<"merge", Bool(TRUE)>>},
     {<<"option", TheOption>>, <<"attempts", IntValue(3)>>},
     {<<"exclude_unset", Bool(TRUE)>>},
     {<<"retry", None>>}}

\* arguments of every kind, and the plain ones (every call valid)
AnyInputs ==
    [sources |-> Sources,
     records |-> Records,
     ids |-> {<<"x">>},
     args |-> {<<>>, <<(<<"x">>)>>},
     kwargs |-> KwargsPool,
     ignore |-> {None, Set({<<"a">>})},
     limit |-> MaxCalls]

PlainInputs ==
    [sources |-> {TheClient, TheTransaction, TheWriteBatch},
     records |-> {r \in Records : r.fields_set = {<<"a">>}},
     ids |-> {<<"x">>, <<"y">>},
     args |-> {<<>>},
     kwargs |-> {{}},
     ignore |-> {None},
     limit |-> MaxQueue]

InitWrite ==
    /\ queue = [w \in Writers |-> <<>>]
    /\ issued = [w \in Writers |-> <<>>]
    /\ wcall = [name |-> "none"]
    /\ handed = None
    /\ refcalls = <<>>
    /\ wresult = None
    /\ ncalls = 0
    /\ PathIdle /\ RefIdle /\ FlatIdle /\ SentIdle /\ StoreIdle /\ TypeIdle /\ CacheIdle

\* what the native document reference may answer to the call made on it
Outcomes(plan) ==
    IF ~plan.raised /\ plan.value.effect.on = "reference"
    THEN {Returned(TheWriteResult), Raised("BackendError")}
    ELSE {None}

Usable(cls, source) ==
    cls.base = "FirestoreLocation" => source.type \in LocationSourceTypes

\* the call runs: the handler method's one collaborator call is made, and the
\* caller gets what the method returns or the error raised on the way
Run(name, method, cls, source, data, id, args, ignore_flatten, kwargs, plan) ==
    \E outcome \in Outcomes(plan) :
        LET effect == plan.value.effect
            result == IF plan.raised THEN plan
                      ELSE IF effect.on = "writer" THEN Returned(None)
                      ELSE IF outcome.raised THEN outcome
                      ELSE IF effect.returns THEN outcome
                      ELSE Returned(None)
        IN /\ wcall' = [name |-> name, method |-> method, cls |-> cls,
                        source |-> source, data |-> data, id |-> id,
                        args |-> args, ignore_flatten |-> ignore_flatten,
                        kwargs |-> kwargs, outcome |-> outcome]
           /\ ncalls' = ncalls + 1
           /\ handed' = IF plan.raised THEN None ELSE plan.value.handed
           /\ refcalls' = IF ~plan.raised /\ effect.on = "reference"
                          THEN <<effect.call>> ELSE <<>>
           /\ queue' = IF ~plan.raised /\ effect.on = "writer"
                       THEN [queue EXCEPT ![effect.writer] = Append(@, effect.call)]
                       ELSE queue
           /\ wresult' = result
           /\ issued' = IF source \in Writers
                        THEN [issued EXCEPT ![source] =
                                 Append(@, [method |-> method, cls |-> cls,
                                            id |-> id, args |-> args,
                                            returned |-> ~result.raised])]
                        ELSE issued
           /\ UNCHANGED exceptWrite

\* cls.firestore_write(method, source, id, *args, data=data, **kwargs)
FirestoreWrite(in) ==
    /\ ncalls < in.limit
    /\ \E cls \in {c \in RecordClasses : c.base = "FirestoreModel"},
          method \in {"create", "set", "update", "delete"},
          source \in in.sources, id \in in.ids, args \in in.args,
          kwargs \in in.kwargs :
          LET data == IF method = "delete" THEN None ELSE Example
          IN Run("firestore_write", method, cls, source, data, id, args, None, kwargs,
                 FirestoreModel_firestore_write(cls, method, source, id, args, data, kwargs))

\* cls.firestore_create(source, data, id, *args, **kwargs)
FirestoreCreate(in) ==
    /\ ncalls < in.limit
    /\ \E cls \in RecordClasses, source \in in.sources, data \in in.records,
          id \in in.ids, args \in in.args, kwargs \in in.kwargs :
          /\ Usable(cls, source)
          /\ Run("firestore_create", "create", cls, source, data, id, args, None, kwargs,
                 firestore_create(cls, source, data, id, args, kwargs))

\* cls.firestore_set(source, data, id, *args, **kwargs)
FirestoreSet(in) ==
    /\ ncalls < in.limit
    /\ \E cls \in RecordClasses, source \in in.sources, data \in in.records,
          id \in in.ids, args \in in.args, kwargs \in in.kwargs :
          /\ Usable(cls, source)
          /\ Run("firestore_set", "set", cls, source, data, id, args, None, kwargs,
                 firestore_set(cls, source, data, id, args, kwargs))

\* cls.firestore_update(source, data, id, *args, ignore_flatten=..., **kwargs)
FirestoreUpdate(in) ==
    /\ ncalls < in.limit
    /\ \E cls \in RecordClasses, source \in in.sources, data \in in.records,
          id \in in.ids, args \in in.args, kwargs \in in.kwargs,
          ignore_flatten \in in.ignore :
          /\ Usable(cls, source)
          /\ Run("firestore_update", "update", cls, source, data, id, args,
                 ignore_flatten, kwargs,
                 firestore_update(cls, source, data, id, args, ignore_flatten, kwargs))

\* cls.firestore_delete(source, id, *args, **kwargs)
FirestoreDelete(in) ==
    /\ ncalls < in.limit
    /\ \E cls \in RecordClasses, source \in in.sources,
          id \in in.ids, args \in in.args, kwargs \in in.kwargs :
          /\ Usable(cls, source)
          /\ Run("firestore_delete", "delete", cls, source, None, id, args, None, kwargs,
                 firestore_delete(cls, source, id, args, kwargs))

NextWrite ==
    \/ FirestoreWrite(AnyInputs)
    \/ FirestoreCreate(AnyInputs)
    \/ FirestoreSet(AnyInputs)
    \/ FirestoreUpdate(AnyInputs)
    \/ FirestoreDelete(AnyInputs)

SpecWrite == InitWrite /\ [][NextWrite]_vars

NextQueue ==
    \/ FirestoreWrite(PlainInputs)
    \/ FirestoreCreate(PlainInputs)
    \/ FirestoreSet(PlainInputs)
    \/ FirestoreUpdate(PlainInputs)
    \/ FirestoreDelete(PlainInputs)

SpecQueue == InitWrite /\ [][NextQueue]_vars

(***************************************************************************)
(* Properties of writes.                                                   *)
(***************************************************************************)
Direct(source) == source.type \in {"Client", "AsyncClient"}
Atomic(source) == source.type \in {"Transaction", "WriteBatch"}

\* C7: for a live client as source, a write that reaches the handler makes
\* exactly one call, of the method asked for, on the native document
\* reference and nothing is queued; the caller gets that call's result, or the
\* failure of that call unchanged.  A firestore_write with the right number of
\* path arguments always reaches the handler.
C7_DirectOneCall ==
    (wcall.name # "none" /\ Direct(wcall.source)) =>
        /\ handed # None =>
              /\ Len(refcalls) = 1
              /\ refcalls[1].name = wcall.method
              /\ wresult = wcall.outcome
        /\ handed = None => (refcalls = <<>> /\ wresult.raised)
        /\ (wcall.name = "firestore_write" /\ Len(wcall.args) = 0) => handed # None
        /\ \A w \in Writers : Len(queue[w]) <= Len(issued[w])

\* an update on the client failed in the backend, and the caller got that failure
C7_Witness ==
    /\ wcall.name = "firestore_write" /\ wcall.method = "update"
    /\ wcall.source = TheClient
    /\ Len(refcalls) = 1 /\ refcalls[1].name = "update"
    /\ wcall.outcome = Raised("BackendError")
    /\ wresult = Raised("BackendError")

\* the native reference of the document a call addresses
Addressed(call) ==
    [type |-> "DocumentReference",
     _path |-> <<call.cls.firestore_location[1], call.id>>]

\* C8: for a transaction or a write batch as source, every write call that
\* returns, returns None and calls no native document reference, and the
\* writer's queue holds one entry per such call, of the same method and the
\* same document reference, in the order of the calls.
C8_AtomicQueue ==
    /\ (wcall.name # "none" /\ Atomic(wcall.source) /\ ~wresult.raised) =>
          (wresult = Returned(None) /\ refcalls = <<>>)
    /\ \A w \in {x \in DOMAIN queue : Atomic(x)} :
          LET done == SelectSeq(issued[w], LAMBDA call : call.returned)
          IN /\ Len(queue[w]) = Len(done)
             /\ \A i \in 1..Len(done) :
                   /\ queue[w][i].name = done[i].method
                   /\ queue[w][i].reference = Addressed(done[i])

\* an update of x and then a create of y, both on the transaction
C8_Witness ==
    /\ wcall.name = "firestore_create" /\ wcall.source = TheTransaction
    /\ wresult = Returned(None)
    /\ Len(queue[TheTransaction]) = 2
    /\ queue[TheTransaction][1].name = "update"
    /\ queue[TheTransaction][1].reference._path = <<(<<"c">>), <<"x">>>>
    /\ queue[TheTransaction][2].name = "create"
    /\ queue[TheTransaction][2].reference._path = <<(<<"c">>), <<"y">>>>

\* the record as the serializer gives it: its fields, the unset ones left out
\* when asked
Serialized(record, exclude_unset) ==
    {pair \in AsMapping(record.fields) : exclude_unset => pair[1] \in record.fields_set}

\* the same as a dict (the fields are in declaration order)
SerializedDict(record) ==
    Dict(SelectSeq(record.fields.items, LAMBDA item : item[1] \in record.fields_set))

\* C9: what firestore_update hands down is the flattening of the serialized
\* record (its set fields) with the caller's ignore_flatten as exclusion set;
\* what firestore_create and firestore_set hand down is the serialized record
\* itself, nested; this for a source of every kind, and what is handed down is
\* what the native call receives.
C9_UpdateFlattened ==
    handed # None =>
        /\ wcall.name = "firestore_update" =>
              AsMapping(handed.data) =
                 {<<join(q, "."), ValueAt(SerializedDict(wcall.data), q)>> :
                     q \in {r \in NodePaths(SerializedDict(wcall.data)) :
                               Emitted(SerializedDict(wcall.data), wcall.ignore_flatten, r)}}
        /\ wcall.name \in {"firestore_create", "firestore_set"} =>
              AsMapping(handed.data) =
                 Serialized(wcall.data, <<"exclude_unset", Bool(TRUE)>> \in wcall.kwargs)
        /\ (refcalls # <<>> /\ wcall.method # "delete") =>
              refcalls[1].data = handed.data

\* an update through the bulk writer, nothing excluded: a.b and a.c are keys
C9_Witness ==
    /\ wcall.name = "firestore_update" /\ wcall.source = TheBulkWriter
    /\ wcall.ignore_flatten = None
    /\ handed # None
    /\ AsMapping(handed.data) = {<<(<<"a", ".", "b">>), IntValue(1)>>,
                                 <<(<<"a", ".", "c">>), IntValue(2)>>}

\* a create through the transaction: the nested mapping is handed down whole
C9_WitnessNested ==
    /\ wcall.name = "firestore_create" /\ wcall.source = TheTransaction
    /\ handed # None
    /\ \E i \in 1..Len(handed.data.items) : isMapping(handed.data.items[i][2])

\* C14: for a bulk writer as source, every write call that reaches the
\* handler queues one operation on the writer, of the method asked for, on the
\* document addressed, with the attempts the caller gave (0 when the caller
\* gave none); no native document reference is called and the call returns
\* None.
C14_BulkAttempts ==
    /\ (wcall.name # "none" /\ wcall.source = TheBulkWriter) =>
          /\ handed # None =>
                /\ wresult = Returned(None)
                /\ refcalls = <<>>
                /\ LET entry == queue[TheBulkWriter][Len(queue[TheBulkWriter])]
                   IN /\ entry.name = wcall.method
                      /\ entry.reference = Addressed(wcall)
                      /\ \A value \in {IntValue(n) : n \in 0..5} :
                            <<"attempts", value>> \in wcall.kwargs => entry.attempts = value
                      /\ (\A pair \in wcall.kwargs : pair[1] # "attempts") =>
                            entry.attempts = IntValue(0)
          /\ handed = None => wresult.raised
    /\ \A w \in {x \in DOMAIN queue : x = TheBulkWriter} :
          Len(queue[w]) = Len(SelectSeq(issued[w], LAMBDA call : call.returned))

\* a create through the bulk writer with attempts=3
C14_Witness ==
    /\ wcall.name = "firestore_create" /\ wcall.source = TheBulkWriter
    /\ <<"attempts", IntValue(3)>> \in wcall.kwargs
    /\ wresult = Returned(None)
    /\ Len(queue[TheBulkWriter]) >= 1
    /\ queue[TheBulkWriter][Len(queue[TheBulkWriter])].name = "create"
    /\ queue[TheBulkWriter][Len(queue[TheBulkWriter])].attempts = IntValue(3)

\* the call the collaborator received for the last write: the one on the
\* native document reference, or the one queued on the writer
Received ==
    IF refcalls # <<>> THEN refcalls[1]
    ELSE queue[wcall.source][Len(queue[wcall.source])]

\* a keyword the caller gave is in the call received, with the caller's value
Forwarded(name) ==
    \A pair \in wcall.kwargs :
        pair[1] = name => (name \in DOMAIN Received /\ Received[name] = pair[2])

\* C15: the timeout and the retry the caller of a write gave are in the call
\* the collaborator receives, unchanged, for a source of every kind and every
\* method.
C15_TimeoutRetryForwarded ==
    (wcall.name # "none" /\ handed # None) =>
        (Forwarded("timeout") /\ Forwarded("retry"))

\* the part of C15 that the code keeps: model.py with a client as source
C15_DirectForwarded ==
    (wcall.name # "none" /\ handed # None /\ Direct(wcall.source)
        /\ wcall.cls.base = "FirestoreModel") =>
        (Forwarded("timeout") /\ Forwarded("retry"))

(***************************************************************************)
(* Sentinels: a field value, tagged or not, is serialized.                 *)
(***************************************************************************)
\* what a caller may put first in a 2-tuple: a member, the value of a member,
\* another str, a number
Firsts ==
    {Member(v) : v \in SentinelValues}
    \cup {Str(v) : v \in SentinelValues}
    \cup {Str("other"), IntValue(1)}

\* values that are not tuples: numbers, lists, None, a record
PlainValues ==
    {None, IntValue(5), IntValue(1), List(<<>>), List(<<IntValue(1)>>),
     List(<<IntValue(1), IntValue(5)>>),
     [type |-> "Record", fields |-> Example, fields_set |-> {<<"a">>, <<"d">>}]}

\* values with 2-tuples nested up to a depth
RECURSIVE FieldValues(_)
FieldValues(depth) ==
    IF depth = 0 THEN PlainValues
    ELSE FieldValues(depth - 1)
         \cup {Tuple(<<first, value>>) : first \in Firsts, value \in FieldValues(depth - 1)}

\* tuples of another length that start with a member
OtherTuples ==
    {Tuple(<<FIRESTORE_DELETE>>),
     Tuple(<<FIRESTORE_INCREMENT, IntValue(5), IntValue(1)>>)}

\* a record holds the value in a FirestoreSentinel field
InitSentinel ==
    /\ svalue \in FieldValues(MaxDepth) \cup OtherTuples
    /\ sresult = None
    /\ PathIdle /\ RefIdle /\ FlatIdle /\ WriteIdle /\ StoreIdle /\ TypeIdle /\ CacheIdle

\* the field is serialized: _serialize_sentinel(value, handler, info)
SerializeSentinel ==
    /\ sresult = None
    /\ sresult' = _serialize_sentinel(svalue)
    /\ UNCHANGED <<svalue, exceptSent>>

NextSentinel == SerializeSentinel

SpecSentinel == InitSentinel /\ [][NextSentinel]_vars

\* the value is (tag, payload): a 2-tuple whose first element is a member of
\* Sentinel or the value of one
Tagged(value) ==
    /\ value.type = "tuple"
    /\ Len(value.v) = 2
    /\ value.v[1].type \in {"Sentinel", "str"}
    /\ value.v[1].v \in SentinelValues

\* the payload as the ordinary serializer gives it
Plain(value) ==
    IF value.type = "Record" THEN Dict(value.fields.items) ELSE value

\* C12: a tagged value (tag, payload) serializes to what the backend resolver
\* of the tag gives for the serialized payload (an operation object, or the
\* resolver's error for an operand it does not take), never to the payload and
\* never to the tuple; (INCREMENT, 5) gives the increment by 5; each of the
\* seven tags has a resolver; a value that is not tagged serializes to what the
\* ordinary serializer gives.
C12_SentinelResolved ==
    sresult # None =>
        /\ Tagged(svalue) =>
              LET tag == svalue.v[1].v
                  payload == Plain(svalue.v[2])
              IN /\ tag = "firestore_timestamp" => sresult = Returned(SERVER_TIMESTAMP)
                 /\ tag = "firestore_delete" => sresult = Returned(DELETE_FIELD)
                 /\ tag = "firestore_remove" => sresult = ArrayRemove(payload)
                 /\ tag = "firestore_union" => sresult = ArrayUnion(payload)
                 /\ tag = "firestore_increment" => sresult = Increment(payload)
                 /\ tag = "firestore_maximum" => sresult = Maximum(payload)
                 /\ tag = "firestore_minimum" => sresult = Minimum(payload)
                 /\ sresult.raised => sresult.error = "ValueError"
                 /\ ~sresult.raised =>
                       /\ sresult.value.type \in
                             {"transforms.Sentinel", "ArrayRemove", "ArrayUnion",
                              "Increment", "Maximum", "Minimum"}
                       /\ sresult.value # payload
                       /\ sresult.value # svalue
        /\ svalue = Tuple(<<FIRESTORE_INCREMENT, IntValue(5)>>) =>
              sresult = Returned([type |-> "Increment", value |-> IntValue(5)])
        /\ ~Tagged(svalue) => sresult = Returned(Plain(svalue))

\* (INCREMENT, 5), the tag given as a member
C12_Witness ==
    /\ svalue = Tuple(<<FIRESTORE_INCREMENT, IntValue(5)>>)
    /\ sresult # None
    /\ ~sresult.raised
    /\ sresult.value.type = "Increment" /\ sresult.value.value = IntValue(5)

\* C13: a tagged value whose payload is a tagged value is rejected with an
\* error: no operation object comes out.
C13_NestedRejected ==
    (sresult # None /\ Tagged(svalue) /\ Tagged(svalue.v[2])) => sresult.raised

(***************************************************************************)
(* Write, then read back: records are set through a client, the backend    *)
(* keeps them, and a read decodes what the backend answers.                *)
(***************************************************************************)
\* the documented record, and one with other values in the same fields
StoredRecords ==
    {[type |-> "Record", fields |-> Example, fields_set |-> {<<"a">>, <<"d">>}],
     [type |-> "Record",
      fields |-> Dict(<< <<(<<"a">>), Dict(<< <<(<<"b">>), IntValue(7)>> >>)>>,
                         <<(<<"d">>), IntValue(4)>> >>),
      fields_set |-> {<<"a">>, <<"d">>}],
     [type |-> "Record",
      fields |-> Dict(<< <<(<<"a">>), Dict(<<>>)>>, <<(<<"d">>), IntValue(0)>> >>),
      fields_set |-> {<<"a">>}]}

StoredIds == {<<"x">>, <<"y">>}

\* the document paths of the record classes
DocumentPaths == {<<(<<"c">>), id>> : id \in StoredIds}

InitStore ==
    /\ store = [p \in DocumentPaths |-> None]
    /\ written = [p \in DocumentPaths |-> None]
    /\ dcall = [name |-> "none"]
    /\ dresult = None
    /\ PathIdle /\ RefIdle /\ FlatIdle /\ WriteIdle /\ SentIdle /\ TypeIdle /\ CacheIdle

\* cls.firestore_set(client, data, id): the native reference.set replaces the
\* document by the data handed to it, or fails and leaves it
StoreSet ==
    \E cls \in RecordClasses, data \in StoredRecords, id \in StoredIds :
        LET plan == firestore_set(cls, TheClient, data, id, <<>>, {})
        IN \E outcome \in Outcomes(plan) :
            LET done == ~plan.raised /\ ~outcome.raised
                p == plan.value.handed.reference._path
            IN /\ dcall' = [name |-> "firestore_set", cls |-> cls, data |-> data,
                            id |-> id, source |-> TheClient]
               /\ dresult' = IF plan.raised THEN plan ELSE outcome
               /\ store' = IF done THEN [store EXCEPT ![p] = plan.value.effect.call.data]
                           ELSE store
               /\ written' = IF done THEN [written EXCEPT ![p] = data] ELSE written
               /\ UNCHANGED exceptStore

\* cls.firestore_read(source, id)
StoreRead ==
    \E cls \in RecordClasses, source \in {TheClient, TheTransaction}, id \in StoredIds :
        /\ dcall' = [name |-> "firestore_read", cls |-> cls, data |-> None,
                     id |-> id, source |-> source]
        /\ dresult' = firestore_read(cls, source, id, <<>>, store)
        /\ UNCHANGED <<store, written>>
        /\ UNCHANGED exceptStore

NextStore == StoreSet \/ StoreRead

SpecStore == InitStore /\ [][NextStore]_vars

\* the document a read addresses
ReadPath == <<(<<"c">>), dcall.id>>

\* the read returned a snapshot whose record equals the record last written
DecodesWritten ==
    /\ ~dresult.raised
    /\ dresult.value.document # None
    /\ AsMapping(dresult.value.document.data.fields) = AsMapping(written[ReadPath].fields)

\* C16: a record written with firestore_set and then read back with
\* firestore_read decodes to a record equal to the one written, for every
\* record class and document.
C16_RoundTrip ==
    (dcall.name = "firestore_read" /\ written[ReadPath] # None) => DecodesWritten

\* the same, for the read classmethod of location.py alone
C16_LocationRoundTrip ==
    (/\ dcall.name = "firestore_read"
     /\ dcall.cls.base = "FirestoreLocation"
     /\ written[ReadPath] # None) => DecodesWritten

\* a record of the location.py base was written and read back
C16_LocationWitness ==
    /\ dcall.name = "firestore_read"
    /\ dcall.cls.base = "FirestoreLocation"
    /\ written[ReadPath] # None
    /\ DecodesWritten

(***************************************************************************)
(* Record types: a class Inner is defined in the body of a class Outer, so *)
(* Inner's definition is complete before Outer's __init_subclass__ runs.   *)
(***************************************************************************)
\* firestore_config dicts: each key given or left out
ConfigPool ==
    {l \cup i \cup f :
        l \in {{}, {<<"location", Str(<<"c">>)>>},
                   {<<"location", Tuple(<<(<<"p">>), (<<"c">>)>>)>>}},
        i \in {{}, {<<"id_field", Str(<<"i">>)>>}},
        f \in {{}, {<<"path_fields", Tuple(<<(<<"q">>)>>)>>}}}

\* class bodies: a firestore_config, a firestore_location attribute, or neither
BodyPool ==
    {c \cup a :
        c \in {{}} \cup {{<<"firestore_config", cfg>>} : cfg \in ConfigPool \ {{}}},
        a \in {{}, {<<"firestore_location", <<(<<"d">>)>> >>}}}

Bases == {"FirestoreModel", "FirestoreLocation"}

InitType ==
    /\ types = [n \in {"Inner", "Outer"} |-> None]
    /\ declared = [n \in {"Inner", "Outer"} |-> None]
    /\ PathIdle /\ RefIdle /\ FlatIdle /\ WriteIdle /\ SentIdle /\ StoreIdle /\ CacheIdle

\* class Inner(base): body, inside the body of Outer
DefineInner ==
    /\ types["Inner"] = None
    /\ \E base \in Bases, body \in BodyPool :
          LET made == class("Inner", base, body, <<>>)
          IN /\ types' = [types EXCEPT !["Inner"] = made.cls]
             /\ declared' = [declared EXCEPT !["Inner"] = made.cls]
    /\ UNCHANGED exceptType

\* class Outer(base): body, the body holding Inner
DefineOuter ==
    /\ types["Inner"] # None
    /\ types["Outer"] = None
    /\ \E base \in Bases, body \in BodyPool :
          LET made == class("Outer", base, body, [n \in {"Inner"} |-> types[n]])
          IN /\ types' = [types EXCEPT !["Outer"] = made.cls,
                                       !["Inner"] = made.nested["Inner"]]
             /\ declared' = [declared EXCEPT !["Outer"] = made.cls]
    /\ UNCHANGED exceptType

NextType == DefineInner \/ DefineOuter

SpecType == InitType /\ [][NextType]_vars

\* both classes are defined, of the same base
Nested ==
    /\ types["Outer"] # None
    /\ types["Inner"].base = types["Outer"].base

\* C17: a nested record type that declares its own location template keeps it
\* after the enclosing type is defined, and a nested type without one has the
\* enclosing type's template.
C17_NestedInherits ==
    Nested =>
        IF declared["Inner"].firestore_location # <<>>
        THEN types["Inner"].firestore_location = declared["Inner"].firestore_location
        ELSE types["Inner"].firestore_location = types["Outer"].firestore_location

\* what the code does: the enclosing type's template, when it has one, is
\* the nested type's template whatever the nested type declared
C17_NestedOverwritten ==
    Nested =>
        IF types["Outer"].firestore_location # <<>>
        THEN types["Inner"].firestore_location = types["Outer"].firestore_location
        ELSE types["Inner"] = declared["Inner"]

\* a nested type that declared a template has the enclosing type's other one
C17_OverwrittenWitness ==
    /\ Nested
    /\ declared["Inner"].firestore_location # <<>>
    /\ types["Outer"].firestore_location # <<>>
    /\ declared["Inner"].firestore_location # types["Outer"].firestore_location
    /\ types["Inner"].firestore_location = types["Outer"].firestore_location

(***************************************************************************)
(* Instance writes: a record of a class with a location template is        *)
(* written with some path segments supplied by the caller.                 *)
(***************************************************************************)
\* record classes with templates of one, two and three entries, and one with
\* no designated id field
LocatedClasses ==
    {[name |-> "N", base |-> "FirestoreModel", firestore_location |-> <<(<<"c">>)>>,
      firestore_id_field |-> None, firestore_path_fields |-> <<>>],
     [name |-> "A", base |-> "FirestoreModel", firestore_location |-> <<(<<"c">>)>>,
      firestore_id_field |-> Str(<<"i">>), firestore_path_fields |-> <<>>],
     [name |-> "B", base |-> "FirestoreModel",
      firestore_location |-> <<(<<"p">>), (<<"c">>)>>,
      firestore_id_field |-> Str(<<"i">>), firestore_path_fields |-> <<(<<"q">>)>>],
     [name |-> "G", base |-> "FirestoreModel",
      firestore_location |-> <<(<<"g">>), (<<"p">>), (<<"c">>)>>,
      firestore_id_field |-> Str(<<"i">>),
      firestore_path_fields |-> <<(<<"q">>), (<<"r">>)>>]}

\* the record of a class: its id field and its path fields hold a str each
Instance(cls) ==
    [type |-> "Record", cls |-> cls,
     fields |-> Dict(<< <<(<<"i">>), Str(<<"x">>)>>,
                        <<(<<"q">>), Str(<<"y">>)>>,
                        <<(<<"r">>), Str(<<"z">>)>> >>),
     fields_set |-> {<<"i">>, <<"q">>, <<"r">>}]

\* what the caller supplies: no segment, or up to three distinct ones
SuppliedPool ==
    {<<>>, <<(<<"s">>)>>, <<(<<"s">>), (<<"t">>)>>, <<(<<"s">>), (<<"t">>), (<<"u">>)>>}

InstanceSources == {TheClient, TheTransaction}

\* the call runs: as Run, the call remembered with the segments supplied and
\* what _firestore_path made of them
RunInstance(name, method, self, source, supplied, plan) ==
    \E outcome \in Outcomes(plan) :
        LET effect == plan.value.effect
            resolved == _firestore_path(self, supplied)
            result == IF plan.raised THEN plan
                      ELSE IF effect.on = "writer" THEN Returned(None)
                      ELSE IF outcome.raised THEN outcome
                      ELSE IF effect.returns THEN outcome
                      ELSE Returned(None)
        IN /\ wcall' = [name |-> name, method |-> method, self |-> self,
                        source |-> source, supplied |-> supplied,
                        resolved |-> resolved, outcome |-> outcome]
           /\ ncalls' = ncalls + 1
           /\ handed' = IF plan.raised THEN None ELSE plan.value.handed
           /\ refcalls' = IF ~plan.raised /\ effect.on = "reference"
                          THEN <<effect.call>> ELSE <<>>
           /\ queue' = IF ~plan.raised /\ effect.on = "writer"
                       THEN [queue EXCEPT ![effect.writer] = Append(@, effect.call)]
                       ELSE queue
           /\ wresult' = result
           /\ issued' = IF source \in Writers
                        THEN [issued EXCEPT ![source] =
                                 Append(@, [method |-> method, cls |-> self.cls,
                                            id |-> resolved, args |-> supplied,
                                            returned |-> ~result.raised])]
                        ELSE issued
           /\ UNCHANGED exceptWrite

CreateToFirestore ==
    /\ ncalls < MaxCalls
    /\ \E cls \in LocatedClasses, source \in InstanceSources, args \in SuppliedPool :
          RunInstance("create_to_firestore", "create", Instance(cls), source, args,
                      create_to_firestore(Instance(cls), source, args, None, {}))

SetToFirestore ==
    /\ ncalls < MaxCalls
    /\ \E cls \in LocatedClasses, source \in InstanceSources, args \in SuppliedPool :
          RunInstance("set_to_firestore", "set", Instance(cls), source, args,
                      set_to_firestore(Instance(cls), source, args, None, {}))

UpdateToFirestore ==
    /\ ncalls < MaxCalls
    /\ \E cls \in LocatedClasses, source \in InstanceSources, args \in SuppliedPool :
          RunInstance("update_to_firestore", "update", Instance(cls), source, args,
                      update_to_firestore(Instance(cls), source, args, None, None, {}))

DeleteToFirestore ==
    /\ ncalls < MaxCalls
    /\ \E cls \in LocatedClasses, source \in InstanceSources, args \in SuppliedPool :
          RunInstance("delete_to_firestore", "delete", Instance(cls), source, args,
                      delete_to_firestore(Instance(cls), source, args, {}))

NextInstance ==
    \/ CreateToFirestore
    \/ SetToFirestore
    \/ UpdateToFirestore
    \/ DeleteToFirestore

SpecInstance == InitWrite /\ [][NextInstance]_vars

\* an instance write was called
InstanceCalled == wcall.name # "none"

Template == wcall.self.cls.firestore_location

\* the document the write was handed down for
AddressedBy(id, args) ==
    /\ handed # None
    /\ handed.reference =
           FirestoreModel_document_reference(wcall.self.cls, TheClient, id, args).value

\* C18: with as many segments supplied as the template has entries, the
\* resolved document id is the last supplied segment and the intermediate
\* segments are the other supplied segments, in the same order.
C18_FullPathLastIsId ==
    (InstanceCalled /\ Len(wcall.supplied) = Len(Template)) =>
        /\ ~wcall.resolved.raised
        /\ wcall.resolved.value.id = wcall.supplied[Len(wcall.supplied)]
        /\ wcall.resolved.value.args =
               SubSeq(wcall.supplied, 1, Len(wcall.supplied) - 1)

\* what the code does: the first supplied segment is the id, the segments
\* after it are the intermediate ones
C18_FullPathFirstIsId ==
    (InstanceCalled /\ Len(wcall.supplied) = Len(Template)) =>
        /\ ~wcall.resolved.raised
        /\ wcall.resolved.value.id = Head(wcall.supplied)
        /\ wcall.resolved.value.args = Tail(wcall.supplied)
        /\ ~wresult.raised => AddressedBy(Head(wcall.supplied), Tail(wcall.supplied))

\* a full path of two distinct segments was supplied
C18_FirstWitness ==
    /\ InstanceCalled
    /\ Len(wcall.supplied) = Len(Template)
    /\ Len(wcall.supplied) = 2
    /\ wcall.resolved.value.id = <<"s">>
    /\ handed # None

\* the values of the record's fields, as the str each holds
FieldValue(name) == Get(wcall.self.fields, name).v

\* C19: with fewer segments supplied than the template has entries, the id
\* is read from the record's id field; the intermediate segments are the
\* supplied ones when one fewer than the template's entries was supplied,
\* and otherwise the values of the declared path fields in declared order;
\* the write is handed down for the document so addressed.
C19_FewerSegments ==
    (/\ InstanceCalled
     /\ Len(wcall.supplied) < Len(Template)
     /\ wcall.self.cls.firestore_id_field # None) =>
        LET path_fields == wcall.self.cls.firestore_path_fields
            expected == IF Len(wcall.supplied) = Len(Template) - 1
                        THEN wcall.supplied
                        ELSE [i \in 1..Len(path_fields) |-> FieldValue(path_fields[i])]
        IN /\ ~wcall.resolved.raised
           /\ wcall.resolved.value.id = FieldValue(wcall.self.cls.firestore_id_field.v)
           /\ wcall.resolved.value.args = expected
           /\ ~wresult.raised =>
                  AddressedBy(FieldValue(wcall.self.cls.firestore_id_field.v), expected)

\* two path fields were read in declared order, the one supplied segment unused
C19_Witness ==
    /\ InstanceCalled
    /\ Len(Template) = 3
    /\ Len(wcall.supplied) = 1
    /\ wcall.resolved.value.args = <<(<<"y">>), (<<"z">>)>>
    /\ wcall.resolved.value.id = <<"x">>
    /\ handed # None

\* one segment fewer than the template was supplied and used
C19_SuppliedWitness ==
    /\ InstanceCalled
    /\ Len(Template) = 3
    /\ wcall.supplied = <<(<<"s">>), (<<"t">>)>>
    /\ wcall.resolved.value.args = wcall.supplied
    /\ wcall.resolved.value.id = <<"x">>
    /\ handed # None

(***************************************************************************)
(* The classifier's cache: write and query calls are made with the first   *)
(* transaction or with a new one, each call classifying its Source through *)
(* the cached source_to_handler.                                           *)
(***************************************************************************)
\* the k-th transaction of the client
Transaction(k) == [type |-> "Transaction", name |-> k, _client |-> TheClient]

SourceIds == 1..MaxSources

InitCache ==
    /\ cache = <<>>
    /\ runs = [k \in SourceIds |-> 0]
    /\ given = [k \in SourceIds |-> 0]
    /\ instances = 0
    /\ ccall = [name |-> "none"]
    /\ PathIdle /\ RefIdle /\ FlatIdle /\ WriteIdle /\ SentIdle /\ StoreIdle /\ TypeIdle

\* the Sources a call may come with: the first one, or the next new one
Callable == {k \in SourceIds : k = 1 \/ (runs[k] = 0 /\ \A j \in 1..(k - 1) : runs[j] > 0)}

\* source_to_handler(source) through its cache: a hit returns the entry's
\* result; a miss runs the body, which makes a handler instance, and keeps
\* the result
Classify(name, k) ==
    LET i == lru_find(cache, k)
        body == source_to_handler(Transaction(k))
    IN IF i > 0
       THEN /\ cache' = lru_touch(cache, i)
            /\ ccall' = [name |-> name, source |-> k, hit |-> TRUE,
                         instance |-> cache[i].instance]
            /\ given' = given
            /\ UNCHANGED <<runs, instances>>
       ELSE /\ ~body.raised
            /\ instances' = instances + 1
            /\ runs' = [runs EXCEPT ![k] = @ + 1]
            /\ cache' = lru_add(cache, [key |-> k, instance |-> instances + 1,
                                        handler |-> body.value.handler.type])
            /\ given' = IF given[k] = 0 THEN [given EXCEPT ![k] = instances + 1] ELSE given
            /\ ccall' = [name |-> name, source |-> k, hit |-> FALSE,
                         instance |-> instances + 1]

\* cls.firestore_write(method, source, id): client, handler = source_to_handler(source)
CachedWrite ==
    /\ \E k \in Callable : Classify("firestore_write", k)
    /\ UNCHANGED exceptCache

\* cls.firestore_query(source): client, _ = source_to_handler(source)
CachedQuery ==
    /\ \E k \in Callable : Classify("firestore_query", k)
    /\ UNCHANGED exceptCache

NextCache == CachedWrite \/ CachedQuery

SpecCache == InitCache /\ [][NextCache]_vars

\* the number of distinct Sources used so far
Used == Cardinality({k \in SourceIds : runs[k] > 0})

\* C20: after any sequence of write and query calls, the classifier body has
\* run at most once for each Source, and a call with a Source gets the handler
\* instance that Source got first.
C20_ClassifiedOnce ==
    /\ \A k \in SourceIds : runs[k] <= 1
    /\ ccall.name # "none" => ccall.instance = given[ccall.source]

\* what the code does: the same holds while no more Sources are in use than
\* the cache has room for
C20_OnceWithinCapacity ==
    Used <= maxsize =>
        /\ \A k \in SourceIds : runs[k] <= 1
        /\ ccall.name # "none" => ccall.instance = given[ccall.source]

\* a Source classified before is used again and gets its entry
C20_HitWitness ==
    /\ ccall.name # "none"
    /\ ccall.hit
    /\ Used > 1
    /\ ccall.instance = given[ccall.source]

(***************************************************************************)
(* Binding a location: a class with a template of literal names is asked   *)
(* for its collection, or for a document of it, with some ids.             *)
(***************************************************************************)
\* templates of no, one, two and three literal names
Templates ==
    {<<>>, <<(<<"c">>)>>, <<(<<"p">>), (<<"c">>)>>,
     <<(<<"g">>), (<<"p">>), (<<"c">>)>>}

\* a class of each base for each template
BoundClasses ==
    {[name |-> "T", base |-> b, firestore_location |-> t] :
        b \in {"FirestoreModel", "FirestoreLocation"}, t \in Templates}

\* the ids a caller supplies: up to three, equal ones and the empty str included
Ids == {<<>>, <<"x">>, <<"y">>}
IdTuples == UNION {[1..k -> Ids] : k \in 0..MaxIds}

InitBind ==
    /\ ref = None
    /\ rcall = [name |-> "none"]
    /\ rresult = None
    /\ PathIdle /\ FlatIdle /\ WriteIdle /\ SentIdle /\ StoreIdle /\ TypeIdle /\ CacheIdle

\* cls.firestore_collection(*args)
BindCollection ==
    /\ rcall.name = "none"
    /\ \E cls \in BoundClasses, args \in IdTuples :
          /\ rcall' = [name |-> "firestore_collection", cls |-> cls, id |-> None,
                       args |-> args]
          /\ rresult' = firestore_collection(cls, args)
    /\ UNCHANGED <<ref, exceptRef>>

\* cls.firestore_document(id, *args)
BindDocument ==
    /\ rcall.name = "none"
    /\ \E cls \in BoundClasses, id \in Ids, args \in IdTuples :
          /\ rcall' = [name |-> "firestore_document", cls |-> cls, id |-> Str(id),
                       args |-> args]
          /\ rresult' = firestore_document(cls, id, args)
    /\ UNCHANGED <<ref, exceptRef>>

NextBind == BindCollection \/ BindDocument

SpecBind == InitBind /\ [][NextBind]_vars

\* the segments of the reference returned
BoundSegments == rresult.value.root.root

\* the template's literals in order at the 1st, 3rd, ... place and the ids,
\* last supplied first, at the 2nd, 4th, ... place
Interleaved(segments, location, ids) ==
    /\ \A k \in 1..Len(location) : segments[2 * k - 1] = location[k]
    /\ \A k \in 1..Len(ids) : segments[2 * k] = ids[Len(ids) + 1 - k]

\* C21: with a template of n >= 1 literals and n-1 ids, firestore_collection
\* returns a collection of 2n-1 segments, the literals in order interleaved
\* with the ids in reverse order of supply, and firestore_document returns the
\* document with the id appended as the 2n-th segment; with an empty template
\* or any other number of ids the call fails.
C21_Interleaved ==
    rcall.name # "none" =>
        LET location == rcall.cls.firestore_location
            n == Len(location)
        IN IF n >= 1 /\ Len(rcall.args) = n - 1
           THEN /\ ~rresult.raised
                /\ Interleaved(BoundSegments, location, rcall.args)
                /\ IF rcall.name = "firestore_collection"
                   THEN /\ rresult.value.type = "FirestoreCollection"
                        /\ Len(BoundSegments) = 2 * n - 1
                   ELSE /\ rresult.value.type = "FirestoreDocument"
                        /\ Len(BoundSegments) = 2 * n
                        /\ BoundSegments[2 * n] = rcall.id.v
           ELSE rresult.raised

\* a document of a template of three literals, addressed with two distinct ids
C21_Witness ==
    /\ rcall.name = "firestore_document"
    /\ Len(rcall.cls.firestore_location) = 3
    /\ rcall.args = <<(<<"x">>), (<<"y">>)>>
    /\ ~rresult.raised
    /\ BoundSegments = <<(<<"g">>), (<<"y">>), (<<"p">>), (<<"x">>), (<<"c">>), rcall.id.v>>

(***************************************************************************)
(* Decoding with the record type's context: the backend holds documents of *)
(* the located classes, with or without the id and path fields in the      *)
(* body, and the asynchronous read decodes them.                           *)
(***************************************************************************)
TheAsyncTransaction ==
    [type |-> "AsyncTransaction", name |-> "atxn", _client |-> [type |-> "AsyncClient", name |-> "aclient"]]

\* the ids that address the one document of a class, as the caller supplies
\* them: the document's id, then the parents' ids, the nearest first
DecodedId == <<"x">>
DecodedArgs(cls) ==
    SubSeq(<<(<<"y">>), (<<"z">>)>>, 1, Len(cls.firestore_location) - 1)

DecodedPath(cls) ==
    FirestoreModel_firestore_document(cls, DecodedId, DecodedArgs(cls)).value.root.root

DecodedPaths == {DecodedPath(cls) : cls \in LocatedClasses}

\* document bodies: a data field, and the id field and the first path field
\* stored or not
Bodies ==
    {Dict(<< <<(<<"d">>), IntValue(3)>> >> \o i \o q) :
        i \in {<<>>, << <<(<<"i">>), Str(<<"k">>)>> >>},
        q \in {<<>>, << <<(<<"q">>), Str(<<"k">>)>> >>}}

InitDecode ==
    /\ store = [p \in DecodedPaths |-> None]
    /\ written = [p \in DecodedPaths |-> None]
    /\ dcall = [name |-> "none"]
    /\ dresult = None
    /\ PathIdle /\ RefIdle /\ FlatIdle /\ WriteIdle /\ SentIdle /\ TypeIdle /\ CacheIdle

\* the backend comes to hold a document (written by any of its clients)
BackendPut ==
    \E p \in DecodedPaths, body \in Bodies :
        /\ store' = [store EXCEPT ![p] = body]
        /\ dcall' = [name |-> "put", path |-> p]
        /\ dresult' = None
        /\ UNCHANGED written
        /\ UNCHANGED exceptStore

\* await cls.firestore_read_async(source, id, *args)
ReadAsync ==
    \E cls \in LocatedClasses,
       source \in {[type |-> "AsyncClient", name |-> "aclient"], TheAsyncTransaction} :
        /\ dcall' = [name |-> "firestore_read_async", cls |-> cls, source |-> source,
                     path |-> DecodedPath(cls)]
        /\ dresult' = FirestoreModel_firestore_read_async(
                          cls, source, DecodedId, DecodedArgs(cls), store)
        /\ UNCHANGED <<store, written>>
        /\ UNCHANGED exceptStore

NextDecode == BackendPut \/ ReadAsync

SpecDecode == InitDecode /\ [][NextDecode]_vars

\* an existing document was decoded
Decoded == dcall.name = "firestore_read_async" /\ store[dcall.path] # None

\* the decoded record's field, and the body's
DecodedField(name) == Get(dresult.value.document.data.fields, name)
Stored(name) == name \in Keys(store[dcall.path])

\* the field holds the body's value when the body has one, else the fill
FilledWith(name, fill) ==
    DecodedField(name) = IF Stored(name) THEN Get(store[dcall.path], name) ELSE Str(fill)

\* C22: decoding an existing document with the record type's context fills
\* the id field with the document id and the k-th declared path field with
\* the k-th intermediate document id of the document's path, and keeps a
\* value the body stores for those fields.
C22_Backfilled ==
    Decoded =>
        LET cls == dcall.cls
            path_fields == cls.firestore_path_fields
        IN /\ ~dresult.raised
           /\ cls.firestore_id_field # None =>
                  FilledWith(cls.firestore_id_field.v, dcall.path[Len(dcall.path)])
           /\ \A k \in 1..Len(path_fields) :
                  FilledWith(path_fields[k], dcall.path[2 * k])

\* what the code does: the k-th path field is filled with the k-th segment of
\* the document's collection path, the first being the template's first
\* literal; the id field is filled with the document id; stored values stay
C22_FilledFromSegments ==
    Decoded =>
        LET cls == dcall.cls
            path_fields == cls.firestore_path_fields
        IN /\ ~dresult.raised
           /\ cls.firestore_id_field # None =>
                  FilledWith(cls.firestore_id_field.v, dcall.path[Len(dcall.path)])
           /\ \A k \in 1..Len(path_fields) :
                  FilledWith(path_fields[k], dcall.path[k])

\* a document addressed through one parent id was decoded, nothing of its
\* identity stored in the body
C22_SegmentsWitness ==
    /\ Decoded
    /\ Len(dcall.path) = 4
    /\ ~Stored(<<"i">>) /\ ~Stored(<<"q">>)
    /\ DecodedField(<<"i">>) = Str(<<"x">>)
    /\ DecodedField(<<"q">>) = Str(<<"p">>)

(***************************************************************************)
(* Empty nested mappings in a flattened record (SpecFlatten).              *)
(***************************************************************************)
\* the key paths of the record whose value is the empty mapping
EmptyNodes == {q \in NodePaths(fobj) : ValueAt(fobj, q) = Dict(<<>>)}

\* the flattened output has an entry for the key path, holding the empty mapping
EmptyEntry(q) ==
    /\ join(q, ".") \in Keys(fresult)
    /\ Get(fresult, join(q, ".")) = Dict(<<>>)

\* no mapping above the key path is excluded: the walk reaches the key
Reached(q) ==
    \A j \in 1..(Len(q) - 1) : join(SubSeq(q, 1, j), ".") \notin Excluded(fexclude)

\* C23 as stated: a key whose value is an empty nested mapping has no entry in
\* the flattened output when its path is not in the exclusion set, and one
\* entry holding the empty mapping when its path is in the exclusion set, at
\* any nesting depth.
C23_EmptyMapping ==
    fresult # None =>
        \A q \in EmptyNodes :
            IF join(q, ".") \notin Excluded(fexclude)
            THEN join(q, ".") \notin Keys(fresult)
            ELSE EmptyEntry(q)

\* C23 amended: the entry of an excluded key holding an empty mapping is there
\* when no mapping above the key is excluded; under an excluded mapping the
\* key has no entry of its own, it is part of that mapping's value.
C23_EmptyMappingReached ==
    fresult # None =>
        \A q \in EmptyNodes :
            IF join(q, ".") \notin Excluded(fexclude)
            THEN join(q, ".") \notin Keys(fresult)
            ELSE IF Reached(q) THEN EmptyEntry(q)
            ELSE join(q, ".") \notin Keys(fresult)

\* a record with two empty nested mappings below the top, one excluded and
\* emitted, the other not excluded and absent
C23_Witness ==
    /\ fresult # None
    /\ \E q \in EmptyNodes, r \in EmptyNodes :
          /\ Len(q) = 2 /\ Len(r) = 2
          /\ join(q, ".") \in Excluded(fexclude) /\ Reached(q) /\ EmptyEntry(q)
          /\ join(r, ".") \notin Excluded(fexclude) /\ Reached(r)
          /\ join(r, ".") \notin Keys(fresult)

====
